---- MODULE Spec2Model ----
(***************************************************************************)
(* Rule evaluation engines of financial_report_scraper:                    *)
(*   src/src/analyzers/screening_engine.py  (ScreeningEngine, pass/fail)   *)
(*   src/src/analyzers/framework_engine.py  (FrameworkEngine, scoring)     *)
(*                                                                         *)
(* Python values are tagged records: None, numbers (exact rationals n/d),  *)
(* strings, and the complex number Python returns for a negative base      *)
(* raised to a fractional power.  Dicts are functions whose DOMAIN is the  *)
(* set of keys present, so an absent key and a key bound to None differ.   *)
(* A call that raises is an outcome record [exc |-> <exception name>].     *)
(*                                                                         *)
(* The source's Chinese message strings are written in ASCII:              *)
(*   "数据缺失"            -> "data_missing"                               *)
(*   "数据缺失或无效"      -> "data_missing_or_invalid"                    *)
(*   "未匹配到评分规则"    -> "no_rule_matched"                            *)
(*   "不支持的检查类型"    -> "unsupported_check_type"                     *)
(*   "历史数据不足（需要N年）" -> "history_too_short" with argument N      *)
(* and so on; a formatted message is [text |-> template, args |-> values]. *)
(***************************************************************************)
EXTENDS Integers, Sequences, FiniteSets, TLC

VARIABLES
    engine,     \* "screening" | "scoring": which engine class is used
    config,     \* the parsed YAML document handed to / held by the engine
    phase,      \* "new" | "ready" | "load_failed" | "returned" | "raised"
    current,    \* current metrics map (screen: current_metrics, analyze: metrics)
    history,    \* historical metrics, most recent first (screen only)
    industry,   \* industry argument of screen(): None or Str(name)
    outcome,    \* what the last call produced: NoOutcome, a result, or [exc |-> ..]
    calls       \* the calls of the callers that share one engine, each
                \*   [pc |-> "idle" | "categories" | "done", args |-> its arguments,
                \*    results |-> its local list of category results,
                \*    result |-> NoOutcome | what it returned or raised]

vars == <<engine, config, phase, current, history, industry, outcome, calls>>

----------------------------------------------------------------------------
(* Python values *)

None == [t |-> "none"]
Complex == [t |-> "complex"]
Str(s) == [t |-> "str", s |-> s]

RECURSIVE Gcd(_, _)
Gcd(a, b) == IF b = 0 THEN a ELSE Gcd(b, a % b)

Abs(x) == IF x < 0 THEN -x ELSE x

Min(a, b) == IF a < b THEN a ELSE b

\* the rational n/d in lowest terms, d > 0
Rat(n, d) ==
    LET s == IF d < 0 THEN -1 ELSE 1
        g == Gcd(Abs(n), Abs(d))
    IN  [t |-> "num", n |-> (s * n) \div g, d |-> (s * d) \div g]

Num(k) == [t |-> "num", n |-> k, d |-> 1]

IsNone(v) == v.t = "none"
IsNum(v) == v.t = "num"

NumLt(a, b) == a.n * b.d < b.n * a.d
NumLe(a, b) == a.n * b.d <= b.n * a.d
NumAdd(a, b) == Rat(a.n * b.d + b.n * a.d, a.d * b.d)
NumSub(a, b) == Rat(a.n * b.d - b.n * a.d, a.d * b.d)
NumMul(a, b) == Rat(a.n * b.n, a.d * b.d)
NumDiv(a, b) == Rat(a.n * b.d, a.d * b.n)

RECURSIVE Pow(_, _)
Pow(b, e) == IF e = 0 THEN 1 ELSE b * Pow(b, e - 1)

\* dict.get(key) and dict.get(key, default)
Get(m, k) == IF k \in DOMAIN m THEN m[k] ELSE None
GetDefault(m, k, dflt) == IF k \in DOMAIN m THEN m[k] ELSE dflt

\* a raised exception, as the outcome of a call
Raise(e) == [exc |-> e]
Raised(r) == "exc" \in DOMAIN r

NoOutcome == [none |-> TRUE]

\* an f-string: the template and the values formatted into it
Msg(text, args) == [text |-> text, args |-> args]

----------------------------------------------------------------------------
(* ScreeningEngine: comparison and formatting primitives *)

\* Computed floats are kept exact.  Besides the rationals ("num") there are
\*   "growth": ratio ** (1/years) - 1            (a CAGR)
\*   "sqrt"  : the square root of a rational sq  (stdev / mean)
\*   "quot"  : growth mc divided by growth p > 0 (a valuation expansion ratio)
IsReal(v) == v.t \in {"num", "growth", "sqrt", "quot"}

\* b ** e, not computed beyond cap (cap < b ** e is all the caller needs to know)
RECURSIVE PowCapped(_, _, _)
PowCapped(b, e, cap) ==
    IF e = 0 THEN 1
    ELSE LET r == PowCapped(b, e - 1, cap) IN IF r > cap THEN r ELSE b * r

\* the integer k with k ** y = n, or -1 when n is no perfect y-th power
IntRoot(n, y) ==
    IF \E k \in 0..n : PowCapped(k, y, n) = n
    THEN CHOOSE k \in 0..n : PowCapped(k, y, n) = n
    ELSE -1

\* (end_value / start_value) ** (1 / years) - 1, kept in exact form: the ratio
\* and the root taken.  A negative ratio under a fractional exponent (years >= 2)
\* is a Python complex number; with years = 1 the exponent is 1.0 and the result
\* stays a float.
Growth(end_value, start_value, years) ==
    LET ratio == NumDiv(end_value, start_value)
    IN  IF ratio.n < 0 /\ years >= 2 THEN Complex
        ELSE [t |-> "growth", ratio |-> ratio, years |-> years]

SignOf(k) == IF k > 0 THEN 1 ELSE IF k < 0 THEN -1 ELSE 0

\* sign of (g - x) for g = ratio ** (1/years) - 1 and a rational x, decided exactly:
\* for ratio >= 0 the root is monotone, so g ? x  iff  ratio ? (1 + x) ** years
GrowthSign(g, x) ==
    LET s == NumAdd(Num(1), x)
        sy == Rat(Pow(s.n, g.years), Pow(s.d, g.years))
    IN  IF g.years = 1 THEN SignOf(NumSub(g.ratio, s).n)
        ELSE IF s.n < 0 THEN 1
        ELSE SignOf(NumSub(g.ratio, sy).n)

\* a growth as a rational, when its root is rational: [ok |-> .., v |-> ..]
GrowthValue(g) ==
    LET rn == IntRoot(g.ratio.n, g.years)
        rd == IntRoot(g.ratio.d, g.years)
    IN  IF g.years = 1 THEN [ok |-> TRUE, v |-> NumSub(g.ratio, Num(1))]
        ELSE IF rn >= 0 /\ rd > 0 THEN [ok |-> TRUE, v |-> NumSub(Rat(rn, rd), Num(1))]
        ELSE [ok |-> FALSE, v |-> Num(0)]

\* sign of (mc / p - x) for growths mc and p > 0: the sign of (mc - x * p).
\* Exact when one of the two roots is rational, or x = 0, or mc = p.
QuotSign(q, x) ==
    LET pv == GrowthValue(q.p)
        mv == GrowthValue(q.mc)
    IN  IF x.n = 0 THEN GrowthSign(q.mc, Num(0))
        ELSE IF pv.ok THEN GrowthSign(q.mc, NumMul(x, pv.v))
        ELSE IF mv.ok
        THEN (IF x.n > 0 THEN -1 ELSE 1) * GrowthSign(q.p, NumDiv(mv.v, x))
        ELSE IF q.mc = q.p THEN SignOf(NumSub(Num(1), x).n)
        ELSE CHOOSE k \in {} : TRUE

\* sign of (a - x) for a real a and a rational x
Sign(a, x) ==
    CASE a.t = "num" -> SignOf(NumSub(a, x).n)
      [] a.t = "growth" -> GrowthSign(a, x)
      [] a.t = "sqrt" -> IF x.n < 0 THEN 1 ELSE SignOf(NumSub(a.sq, NumMul(x, x)).n)
      [] a.t = "quot" -> QuotSign(a, x)

\* rank of a string in lexicographic order (str < str); the strings of the model
StrRank(s) ==
    CASE s = "A" -> 1 [] s = "AA" -> 2 [] s = "AAA" -> 3 [] s = "B" -> 4
      [] s = "BBB" -> 5 [] OTHER -> 0

\* a < b and a <= b succeed (no TypeError) for two reals or two strings; of two
\* reals one is always a configured or input number (a rational)
Orderable(a, b) ==
    \/ IsReal(a) /\ IsReal(b) /\ (a.t = "num" \/ b.t = "num")
    \/ a.t = "str" /\ b.t = "str"

\* sign of (a - b) for orderable a, b; Unordered when `a < b` is a TypeError
Unordered == 2

Cmp(a, b) ==
    IF ~Orderable(a, b) THEN Unordered
    ELSE IF a.t = "str" THEN SignOf(StrRank(a.s) - StrRank(b.s))
    ELSE (IF b.t = "num" THEN 1 ELSE -1)
         * Sign(IF b.t = "num" THEN a ELSE b, IF b.t = "num" THEN b ELSE a)

\* a == b: numeric equality of numbers, equality of anything else
PyEqBy(c, same) == IF c = Unordered THEN same ELSE c = 0

PyEq(a, b) == PyEqBy(Cmp(a, b), a = b)

\* the comparison by operator, given c = Cmp(value, threshold)
CompareBy(operator, c, same) ==
    CASE operator = ">"  -> c = 1
      [] operator = ">=" -> c \in {0, 1}
      [] operator = "<"  -> c = -1
      [] operator = "<=" -> c \in {-1, 0}
      [] operator = "==" -> PyEqBy(c, same)
      [] operator = "!=" -> ~PyEqBy(c, same)
      [] OTHER -> FALSE

\* a variant of _compare whose except branch returns True
_compare_ExceptTrue(value, operator, threshold) ==
    IF Cmp(value, threshold) = Unordered /\ operator \in {">", ">=", "<", "<="}
    THEN TRUE
    ELSE CompareBy(operator, Cmp(value, threshold), value = threshold)

\* ScreeningEngine._compare: the six operators; an unknown operator and a failed
\* comparison (the except branch) give False
_compare(value, operator, threshold) ==
    CompareBy(operator, Cmp(value, threshold), value = threshold)

\* round(x * scale) for a rational x (ties away from the floor)
RoundScaled(x, scale) == (2 * x.n * scale + x.d) \div (2 * x.d)

\* metric names holding 'rate', 'margin' or 'ratio' and not 'debt'
PercentMetrics == {"growth_rate", "gross_margin", "pe_ratio"}

\* ScreeningEngine._format_value: what is printed for a value
_format_value(value, metric_name) ==
    IF IsNone(value) THEN [fmt |-> "N/A"]
    ELSE IF metric_name \in PercentMetrics
    THEN IF IsNum(value)
         THEN [fmt |-> "percent1", permille |-> RoundScaled(value, 1000)]
         ELSE Raise("ValueError")
    ELSE IF IsNum(value) /\ value.d # 1
    THEN [fmt |-> "fixed2", cents |-> RoundScaled(value, 100)]
    ELSE [fmt |-> "str", v |-> value]

\* criterion.get('importance', default)
Importance(criterion, dflt) ==
    IF "importance" \in DOMAIN criterion THEN criterion.importance ELSE dflt

\* the CriterionResult dataclass
CriterionResult(criterion, passed, actual_value, threshold, operator, importance, reason) ==
    [name |-> criterion.name,
     description |-> criterion.description,
     passed |-> passed,
     actual_value |-> actual_value,
     threshold |-> threshold,
     operator |-> operator,
     importance |-> importance,
     reason |-> reason]

\* `not historical_metrics or len(historical_metrics) < years`
HistoryTooShort(historical_metrics, years) ==
    \/ IsNone(historical_metrics)
    \/ Len(historical_metrics.items) = 0
    \/ Len(historical_metrics.items) < years

\* historical_metrics[:years]
Recent(historical_metrics, years) ==
    SubSeq(historical_metrics.items, 1,
           IF years < Len(historical_metrics.items) THEN years
           ELSE Len(historical_metrics.items))

----------------------------------------------------------------------------
(* ScreeningEngine: the check types *)

_check_simple(criterion, metrics) ==
    LET metric_name == criterion.metric
        threshold == criterion.threshold
        operator == criterion.operator
        value == Get(metrics, metric_name)
    IN  IF IsNone(value)
        THEN CriterionResult(criterion, FALSE, None, threshold, operator,
                             Importance(criterion, "medium"), Msg("data_missing", <<>>))
        ELSE LET shown == _format_value(value, metric_name)
             IN  IF Raised(shown) THEN shown
                 ELSE CriterionResult(criterion, _compare(value, operator, threshold),
                                      value, threshold, operator,
                                      Importance(criterion, "medium"),
                                      Msg("actual", <<shown>>))

\* a variant of the loop that does not break at a failing snapshot: it counts every
\* satisfying snapshot of history[:years]
RECURSIVE StreakFrom_NoBreak(_, _, _, _, _)
StreakFrom_NoBreak(snaps, i, metric_name, operator, threshold) ==
    IF i > Len(snaps) THEN [count |-> 0, values |-> <<>>]
    ELSE LET value == Get(snaps[i], metric_name)
             rest == StreakFrom_NoBreak(snaps, i + 1, metric_name, operator, threshold)
         IN  IF IsNone(value) THEN rest
             ELSE IF _compare(value, operator, threshold)
             THEN [count |-> 1 + rest.count, values |-> <<value>> \o rest.values]
             ELSE [count |-> rest.count, values |-> <<value>> \o rest.values]

\* the loop of _check_consecutive_years over history[:years], from index i (1-based):
\* the streak counted and the values appended before the loop breaks
RECURSIVE StreakFrom(_, _, _, _, _)
StreakFrom(snaps, i, metric_name, operator, threshold) ==
    IF i > Len(snaps) THEN [count |-> 0, values |-> <<>>]
    ELSE LET value == Get(snaps[i], metric_name)
         IN  IF IsNone(value) THEN [count |-> 0, values |-> <<>>]
             ELSE IF _compare(value, operator, threshold)
             THEN LET rest == StreakFrom(snaps, i + 1, metric_name, operator, threshold)
                  IN  [count |-> 1 + rest.count, values |-> <<value>> \o rest.values]
             ELSE [count |-> 0, values |-> <<value>>]

\* a variant of StreakResult that reports the configured threshold and operator
StreakResult_ConfiguredFields(criterion, run, shown) ==
    IF \E k \in DOMAIN shown : Raised(shown[k]) THEN Raise("ValueError")
    ELSE CriterionResult(criterion, run.count >= criterion.years,
                         Num(run.count), criterion.threshold, criterion.operator,
                         Importance(criterion, "medium"),
                         Msg("consecutive", <<Num(run.count), Num(criterion.years)>> \o shown))

\* the result of _check_consecutive_years for the streak counted
StreakResult(criterion, run, shown) ==
    IF \E k \in DOMAIN shown : Raised(shown[k]) THEN Raise("ValueError")
    ELSE CriterionResult(criterion, run.count >= criterion.years,
                         Num(run.count), Num(criterion.years), ">=",
                         Importance(criterion, "medium"),
                         Msg("consecutive", <<Num(run.count), Num(criterion.years)>> \o shown))

\* [self._format_value(v, metric_name) for v in values[:3]]
ShownValues(values, metric_name) ==
    [k \in 1..Min(3, Len(values)) |-> _format_value(values[k], metric_name)]

StreakShown(criterion, run) ==
    StreakResult(criterion, run, ShownValues(run.values, criterion.metric))

_check_consecutive_years(criterion, current_metrics, historical_metrics) ==
    IF HistoryTooShort(historical_metrics, criterion.years)
    THEN CriterionResult(criterion, FALSE, None, criterion.threshold, criterion.operator,
                         Importance(criterion, "medium"),
                         Msg("history_too_short", <<Num(criterion.years)>>))
    ELSE StreakShown(criterion,
                     StreakFrom(Recent(historical_metrics, criterion.years), 1,
                                criterion.metric, criterion.operator, criterion.threshold))

\* the operator _check_cagr compares with: the literal ">" of `cagr > threshold`
CagrOperator(criterion) == ">"

_check_cagr(criterion, historical_metrics) ==
    LET metric_name == criterion.metric
        threshold == criterion.threshold
        years == criterion.years
    IN  IF HistoryTooShort(historical_metrics, years)
        THEN CriterionResult(criterion, FALSE, None, threshold, ">",
                             Importance(criterion, "medium"),
                             Msg("history_too_short", <<Num(years)>>))
        ELSE LET start_value == Get(historical_metrics.items[years], metric_name)
                 end_value == Get(historical_metrics.items[1], metric_name)
             IN  IF IsNone(start_value) \/ IsNone(end_value)
                 THEN CriterionResult(criterion, FALSE, None, threshold, ">",
                                      Importance(criterion, "medium"),
                                      Msg("data_missing_or_invalid", <<>>))
                 ELSE IF ~IsNum(start_value) THEN Raise("TypeError")
                 ELSE IF start_value.n <= 0
                 THEN CriterionResult(criterion, FALSE, None, threshold, ">",
                                      Importance(criterion, "medium"),
                                      Msg("data_missing_or_invalid", <<>>))
                 ELSE IF ~IsNum(end_value) THEN Raise("TypeError")
                 ELSE LET cagr == Growth(end_value, start_value, years)
                      IN  IF cagr = Complex \/ ~IsNum(threshold)
                          THEN Raise("TypeError")
                          ELSE CriterionResult(criterion,
                                   _compare(cagr, CagrOperator(criterion), threshold),
                                   cagr, threshold, CagrOperator(criterion),
                                   Importance(criterion, "medium"),
                                   Msg("cagr", <<Num(years), cagr>>))

_check_latest_quarter(criterion, metrics) == _check_simple(criterion, metrics)

\* criterion.get('benchmark_value', 0.025)
DefaultBenchmark == Rat(1, 40)

_check_compare_benchmark(criterion, metrics) ==
    LET metric_name == criterion.metric
        operator == criterion.operator
        benchmark_value == IF "benchmark_value" \in DOMAIN criterion
                           THEN criterion.benchmark_value ELSE DefaultBenchmark
        value == Get(metrics, metric_name)
    IN  IF IsNone(value)
        THEN CriterionResult(criterion, FALSE, None, benchmark_value, operator,
                             Importance(criterion, "medium"), Msg("data_missing", <<>>))
        ELSE IF ~IsNum(value) \/ ~IsNum(benchmark_value) THEN Raise("ValueError")
        ELSE CriterionResult(criterion, _compare(value, operator, benchmark_value),
                             value, benchmark_value, operator,
                             Importance(criterion, "medium"),
                             Msg("benchmark",
                                 <<[fmt |-> "percent2", v |-> RoundScaled(value, 10000)],
                                   [fmt |-> "percent2",
                                    v |-> RoundScaled(benchmark_value, 10000)]>>))

_check_negative_screen(criterion, current_metrics, historical_metrics) ==
    LET metric_name == criterion.metric
        threshold == criterion.threshold
        value == GetDefault(current_metrics, metric_name, Num(0))
        passed == PyEq(value, threshold)
    IN  CriterionResult(criterion, passed, value, threshold, "==",
                        Importance(criterion, "critical"),
                        IF passed THEN Msg("no_violations", <<>>)
                        ELSE Msg("violations_found", <<value>>))

\* list.index(x): the first position holding x, 0 for the ValueError
IndexOf(list, x) ==
    IF \E i \in DOMAIN list : PyEq(list[i], x)
    THEN CHOOSE i \in DOMAIN list :
             PyEq(list[i], x) /\ \A j \in 1..(i - 1) : ~PyEq(list[j], x)
    ELSE 0

\* a variant of _check_rating that looks up the value only: a threshold that is not
\* in the scale is below every rating
_check_rating_AnyThreshold(criterion, metrics) ==
    LET rating_scale == IF "rating_scale" \in DOMAIN criterion
                        THEN criterion.rating_scale ELSE <<>>
        value == Get(metrics, criterion.metric)
        value_index == IndexOf(rating_scale, value)
    IN  IF IsNone(value)
        THEN CriterionResult(criterion, FALSE, None, criterion.threshold, ">=",
                             Importance(criterion, "medium"), Msg("no_rating_data", <<>>))
        ELSE CriterionResult(criterion,
                             value_index > 0
                                 /\ value_index >= IndexOf(rating_scale, criterion.threshold),
                             value, criterion.threshold, ">=",
                             Importance(criterion, "medium"), Msg("rating", <<value>>))

_check_rating(criterion, metrics) ==
    LET metric_name == criterion.metric
        threshold == criterion.threshold
        rating_scale == IF "rating_scale" \in DOMAIN criterion
                        THEN criterion.rating_scale ELSE <<>>
        value == Get(metrics, metric_name)
        value_index == IndexOf(rating_scale, value)
        threshold_index == IndexOf(rating_scale, threshold)
    IN  IF IsNone(value)
        THEN CriterionResult(criterion, FALSE, None, threshold, ">=",
                             Importance(criterion, "medium"), Msg("no_rating_data", <<>>))
        ELSE IF value_index = 0 \/ threshold_index = 0
        THEN CriterionResult(criterion, FALSE, value, threshold, ">=",
                             Importance(criterion, "medium"),
                             Msg("rating_invalid", <<value>>))
        ELSE CriterionResult(criterion, value_index >= threshold_index, value,
                             threshold, ">=", Importance(criterion, "medium"),
                             Msg("rating", <<value>>))

\* the loop `if value is not None and value > 0: values.append(value)` over snaps;
\* a value that is no number makes `value > 0` a TypeError
PositiveValues(snaps, metric_name) ==
    LET F[i \in 0..Len(snaps)] ==
            IF i = 0 THEN <<>>
            ELSE LET value == Get(snaps[i], metric_name)
                 IN  IF IsNum(value) /\ value.n > 0 THEN Append(F[i - 1], value)
                     ELSE F[i - 1]
    IN  F[Len(snaps)]

PositiveValuesRaises(snaps, metric_name) ==
    \E i \in DOMAIN snaps :
        ~IsNone(Get(snaps[i], metric_name)) /\ ~IsNum(Get(snaps[i], metric_name))

\* list.sort() / sorted()
RECURSIVE Insert(_, _)
Insert(sorted, x) ==
    IF sorted = <<>> THEN <<x>>
    ELSE IF NumLe(x, Head(sorted)) THEN <<x>> \o sorted
    ELSE <<Head(sorted)>> \o Insert(Tail(sorted), x)

Sorted(values) ==
    LET F[i \in 0..Len(values)] == IF i = 0 THEN <<>> ELSE Insert(F[i - 1], values[i])
    IN  F[Len(values)]

Sum(values) ==
    LET F[i \in 0..Len(values)] == IF i = 0 THEN Num(0) ELSE NumAdd(F[i - 1], values[i])
    IN  F[Len(values)]

\* statistics.mean
Mean(values) == NumDiv(Sum(values), Num(Len(values)))

\* statistics.median
Median(values) ==
    LET srt == Sorted(values)
        n == Len(values)
    IN  IF n % 2 = 1 THEN srt[(n + 1) \div 2]
        ELSE NumDiv(NumAdd(srt[n \div 2], srt[n \div 2 + 1]), Num(2))

\* statistics.variance: the sample variance, sum((x - mean)^2) / (n - 1)
Variance(values) ==
    LET m == Mean(values)
        sq == [i \in DOMAIN values |->
                  NumMul(NumSub(values[i], m), NumSub(values[i], m))]
    IN  NumDiv(Sum(sq), Num(Len(values) - 1))

\* criterion.get('years', 5)
DefaultYears == 5

YearsOf(criterion) ==
    IF "years" \in DOMAIN criterion THEN criterion.years ELSE DefaultYears

\* the percentile value of _check_historical_percentile
PercentileValue(percentile_type, historical_values) ==
    LET n == Len(historical_values)
    IN  CASE percentile_type = "median" -> Median(historical_values)
          [] percentile_type = "mean" -> Mean(historical_values)
          [] percentile_type = "25th" -> Sorted(historical_values)[(n \div 4) + 1]
          [] percentile_type = "75th" -> Sorted(historical_values)[((3 * n) \div 4) + 1]
          [] OTHER -> Median(historical_values)

\* the fewest valid historical points _check_historical_percentile and
\* _check_volatility go on with
MinValidPoints == 3

_check_historical_percentile(criterion, current_metrics, historical_metrics) ==
    LET metric_name == criterion.metric
        operator == criterion.operator
        percentile_type == IF "percentile_type" \in DOMAIN criterion
                           THEN criterion.percentile_type ELSE "median"
        years == YearsOf(criterion)
        current_value == Get(current_metrics, metric_name)
        imp == Importance(criterion, "medium")
    IN  IF HistoryTooShort(historical_metrics, years)
        THEN CriterionResult(criterion, FALSE, None, None, operator, imp,
                             Msg("history_too_short", <<Num(years)>>))
        ELSE IF IsNone(current_value)
        THEN CriterionResult(criterion, FALSE, None, None, operator, imp,
                             Msg("current_missing", <<>>))
        ELSE IF PositiveValuesRaises(Recent(historical_metrics, years), metric_name)
        THEN Raise("TypeError")
        ELSE LET historical_values ==
                     PositiveValues(Recent(historical_metrics, years), metric_name)
             IN  IF Len(historical_values) < MinValidPoints
                 THEN CriterionResult(criterion, FALSE, current_value, None, operator, imp,
                                      Msg("valid_history_insufficient",
                                          <<Num(Len(historical_values))>>))
                 ELSE LET threshold_value ==
                              PercentileValue(percentile_type, historical_values)
                          passed == _compare(current_value, operator, threshold_value)
                          shown == _format_value(current_value, metric_name)
                      IN  IF ~IsNum(current_value) THEN Raise("TypeError")
                          ELSE IF Raised(shown) THEN shown
                          ELSE CriterionResult(criterion, passed, current_value,
                                   threshold_value, operator, imp,
                                   Msg("percentile",
                                       <<shown, Num(years), Str(percentile_type),
                                         _format_value(threshold_value, metric_name),
                                         [fmt |-> "fixed2",
                                          cents |-> RoundScaled(
                                              NumDiv(current_value, threshold_value),
                                              100)]>>))

\* a variant of VolatilityValues that collects every number, positive or not
VolatilityValues_EveryNumber(snaps, metric_name) ==
    LET F[i \in 0..Len(snaps)] ==
            IF i = 0 THEN <<>>
            ELSE LET value == Get(snaps[i], metric_name)
                 IN  IF IsNum(value) THEN Append(F[i - 1], value) ELSE F[i - 1]
    IN  F[Len(snaps)]

\* the values _check_volatility collects: its own copy of the loop
\* `if value is not None and value > 0: values.append(value)`
VolatilityValues(snaps, metric_name) == PositiveValues(snaps, metric_name)

\* the sentinel of a degenerate ratio (zero mean, non-positive profit growth)
Sentinel == 999

_check_volatility(criterion, historical_metrics) ==
    LET metric_name == criterion.metric
        threshold == criterion.threshold
        operator == criterion.operator
        years == YearsOf(criterion)
        imp == Importance(criterion, "medium")
    IN  IF HistoryTooShort(historical_metrics, years)
        THEN CriterionResult(criterion, FALSE, None, threshold, operator, imp,
                             Msg("history_too_short", <<Num(years)>>))
        ELSE IF PositiveValuesRaises(Recent(historical_metrics, years), metric_name)
        THEN Raise("TypeError")
        ELSE LET values == VolatilityValues(Recent(historical_metrics, years), metric_name)
             IN  IF Len(values) < MinValidPoints
                 THEN CriterionResult(criterion, FALSE, None, threshold, operator, imp,
                                      Msg("valid_data_insufficient", <<Num(Len(values))>>))
                 ELSE LET mean_value == Mean(values)
                          variance == Variance(values)
                          volatility ==
                              IF mean_value.n = 0 THEN Num(Sentinel)
                              ELSE [t |-> "sqrt",
                                    sq |-> NumDiv(variance, NumMul(mean_value, mean_value))]
                          passed == _compare(volatility, operator, threshold)
                          shown == _format_value(mean_value, metric_name)
                      IN  \* std_dev is unbound in the zero-mean branch
                          IF mean_value.n = 0 THEN Raise("UnboundLocalError")
                          ELSE IF Raised(shown) THEN shown
                          ELSE CriterionResult(criterion, passed, volatility, threshold,
                                   operator, imp,
                                   Msg("volatility",
                                       <<Num(years), volatility, shown,
                                         [t |-> "sqrt", sq |-> variance]>>))

_check_valuation_expansion(criterion, historical_metrics) ==
    LET market_cap_metric == IF "market_cap_metric" \in DOMAIN criterion
                             THEN criterion.market_cap_metric ELSE "market_cap"
        profit_metric == IF "profit_metric" \in DOMAIN criterion
                         THEN criterion.profit_metric ELSE "net_profit"
        threshold == criterion.threshold
        operator == criterion.operator
        years == YearsOf(criterion)
        imp == Importance(criterion, "medium")
    IN  IF HistoryTooShort(historical_metrics, years)
        THEN CriterionResult(criterion, FALSE, None, threshold, operator, imp,
                             Msg("history_too_short", <<Num(years)>>))
        ELSE LET start_market_cap == Get(historical_metrics.items[years], market_cap_metric)
                 end_market_cap == Get(historical_metrics.items[1], market_cap_metric)
                 start_profit == Get(historical_metrics.items[years], profit_metric)
                 end_profit == Get(historical_metrics.items[1], profit_metric)
                 four == {start_market_cap, end_market_cap, start_profit, end_profit}
             IN  IF None \in four
                 THEN CriterionResult(criterion, FALSE, None, threshold, operator, imp,
                                      Msg("cap_or_profit_missing", <<>>))
                 ELSE IF \E v \in four : ~IsNum(v) THEN Raise("TypeError")
                 ELSE IF start_market_cap.n <= 0 \/ start_profit.n <= 0
                 THEN CriterionResult(criterion, FALSE, None, threshold, operator, imp,
                                      Msg("start_invalid", <<>>))
                 ELSE LET market_cap_cagr == Growth(end_market_cap, start_market_cap, years)
                          profit_cagr == Growth(end_profit, start_profit, years)
                      IN  \* `profit_cagr <= 0` on a complex number
                          IF profit_cagr = Complex THEN Raise("TypeError")
                          ELSE IF GrowthSign(profit_cagr, Num(0)) <= 0
                          THEN CriterionResult(criterion,
                                   _compare(Num(Sentinel), operator, threshold),
                                   Num(Sentinel), threshold, operator, imp,
                                   Msg("profit_negative_growth", <<profit_cagr>>))
                          \* f"{market_cap_cagr:.1%}" on a complex number
                          ELSE IF market_cap_cagr = Complex THEN Raise("ValueError")
                          ELSE LET expansion_ratio ==
                                       [t |-> "quot", mc |-> market_cap_cagr,
                                        p |-> profit_cagr]
                               IN  CriterionResult(criterion,
                                       _compare(expansion_ratio, operator, threshold),
                                       expansion_ratio, threshold, operator, imp,
                                       Msg("expansion",
                                           <<market_cap_cagr, profit_cagr,
                                             expansion_ratio>>))

\* ScreeningEngine._check_criterion: dispatch on check_type
_check_criterion(criterion, current_metrics, historical_metrics) ==
    LET check_type == criterion.check_type
    IN  CASE check_type = "simple" -> _check_simple(criterion, current_metrics)
          [] check_type = "consecutive_years" ->
                 _check_consecutive_years(criterion, current_metrics, historical_metrics)
          [] check_type = "cagr" -> _check_cagr(criterion, historical_metrics)
          [] check_type = "latest_quarter" ->
                 _check_latest_quarter(criterion, current_metrics)
          [] check_type = "compare_benchmark" ->
                 _check_compare_benchmark(criterion, current_metrics)
          [] check_type = "negative_screen" ->
                 _check_negative_screen(criterion, current_metrics, historical_metrics)
          [] check_type = "rating" -> _check_rating(criterion, current_metrics)
          [] check_type = "historical_percentile" ->
                 _check_historical_percentile(criterion, current_metrics,
                                              historical_metrics)
          [] check_type = "volatility" -> _check_volatility(criterion, historical_metrics)
          [] check_type = "valuation_expansion" ->
                 _check_valuation_expansion(criterion, historical_metrics)
          [] OTHER -> CriterionResult(criterion, FALSE, None, None, "",
                                      Importance(criterion, "medium"),
                                      Msg("unsupported_check_type", <<>>))

----------------------------------------------------------------------------
(* ScreeningEngine: categories, tolerance and the overall verdict *)

\* list[:3]
FirstThree(s) == SubSeq(s, 1, Min(3, Len(s)))

\* number of results in a list that passed / that satisfy a filter
CountPassed(results) == Cardinality({i \in DOMAIN results : results[i].passed})

\* [c for c in criteria_results if c.importance == level]
OfImportance(results, level) == SelectSeq(results, LAMBDA c : c.importance = level)

AllPassed(results) == \A i \in DOMAIN results : results[i].passed

\* tolerance.get(key, default)
Tol(tolerance, key, dflt) == IF key \in DOMAIN tolerance THEN tolerance[key] ELSE dflt

\* defaults of high_min_pass_rate and medium_min_pass_rate
DefaultHighMinRate == Rat(4, 5)
DefaultMediumMinRate == Rat(3, 5)

\* a variant of _check_with_tolerance without the critical_must_pass step
_check_with_tolerance_IgnoreCritical(criteria_results, tolerance) ==
    LET high == OfImportance(criteria_results, "high")
        medium == OfImportance(criteria_results, "medium")
    IN  /\ Len(high) > 0 =>
               ~NumLt(Rat(CountPassed(high), Len(high)),
                      Tol(tolerance, "high_min_pass_rate", DefaultHighMinRate))
        /\ Len(medium) > 0 =>
               ~NumLt(Rat(CountPassed(medium), Len(medium)),
                      Tol(tolerance, "medium_min_pass_rate", DefaultMediumMinRate))

\* a variant of _check_with_tolerance whose medium group holds every criterion that is
\* neither critical nor high
_check_with_tolerance_OthersMedium(criteria_results, tolerance) ==
    LET critical == OfImportance(criteria_results, "critical")
        high == OfImportance(criteria_results, "high")
        medium == SelectSeq(criteria_results,
                            LAMBDA c : c.importance \notin {"critical", "high"})
    IN  /\ Tol(tolerance, "critical_must_pass", TRUE) => AllPassed(critical)
        /\ Len(high) > 0 =>
               ~NumLt(Rat(CountPassed(high), Len(high)),
                      Tol(tolerance, "high_min_pass_rate", DefaultHighMinRate))
        /\ Len(medium) > 0 =>
               ~NumLt(Rat(CountPassed(medium), Len(medium)),
                      Tol(tolerance, "medium_min_pass_rate", DefaultMediumMinRate))

\* ScreeningEngine._check_with_tolerance
_check_with_tolerance(criteria_results, tolerance) ==
    LET critical == OfImportance(criteria_results, "critical")
        high == OfImportance(criteria_results, "high")
        medium == OfImportance(criteria_results, "medium")
        high_min_rate == Tol(tolerance, "high_min_pass_rate", DefaultHighMinRate)
        medium_min_rate == Tol(tolerance, "medium_min_pass_rate", DefaultMediumMinRate)
    IN  IF Tol(tolerance, "critical_must_pass", TRUE) /\ ~AllPassed(critical)
        THEN FALSE
        ELSE IF Len(high) > 0 /\ NumLt(Rat(CountPassed(high), Len(high)), high_min_rate)
        THEN FALSE
        ELSE IF Len(medium) > 0
                /\ NumLt(Rat(CountPassed(medium), Len(medium)), medium_min_rate)
        THEN FALSE
        ELSE TRUE

\* self.config.get('tolerance', {})
ToleranceOf(cfg) == IF "tolerance" \in DOMAIN cfg THEN cfg.tolerance ELSE <<>>

\* the criterion results of a category, in order
CriteriaResults(category, current_metrics, historical_metrics) ==
    [i \in DOMAIN category.criteria |->
        _check_criterion(category.criteria[i], current_metrics, historical_metrics)]

\* the first exception among a list of outcomes
FirstRaised(outcomes) ==
    outcomes[CHOOSE i \in DOMAIN outcomes :
                 Raised(outcomes[i]) /\ \A j \in 1..(i - 1) : ~Raised(outcomes[j])]

AnyRaised(outcomes) == \E i \in DOMAIN outcomes : Raised(outcomes[i])

\* the CategoryResult built from the criterion results, or their first exception
CategoryResult(cfg, category, required, criteria_results) ==
    IF AnyRaised(criteria_results) THEN FirstRaised(criteria_results)
    ELSE [name |-> category.name,
          description |-> category.description,
          required |-> required,
          passed |-> IF required THEN AllPassed(criteria_results)
                     ELSE _check_with_tolerance(criteria_results, ToleranceOf(cfg)),
          criteria_results |-> criteria_results]

\* ScreeningEngine._check_category
_check_category(cfg, category, current_metrics, historical_metrics) ==
    CategoryResult(cfg, category,
                   IF "required" \in DOMAIN category THEN category.required ELSE TRUE,
                   CriteriaResults(category, current_metrics, historical_metrics))

\* CategoryResult.pass_rate
pass_rate(category_result) ==
    IF Len(category_result.criteria_results) = 0 THEN Num(0)
    ELSE Rat(CountPassed(category_result.criteria_results),
             Len(category_result.criteria_results))

\* the pass rate a partial pass needs: `total_rate >= 0.7`
PartialPassRate == Rat(7, 10)

\* a variant of _determine_result whose partial pass needs a mean above 0.7
_determine_result_StrictPartial(cfg, category_results) ==
    IF AllPassed(SelectSeq(category_results, LAMBDA c : c.required)) THEN <<TRUE, "pass">>
    ELSE IF Tol(ToleranceOf(cfg), "allow_partial_pass", FALSE)
            /\ NumLt(PartialPassRate,
                     NumDiv(Sum([i \in DOMAIN category_results |->
                                    pass_rate(category_results[i])]),
                            Num(Len(category_results))))
    THEN <<FALSE, "partial">>
    ELSE <<FALSE, "fail">>

\* a variant of _determine_result that wants every category passed, required or not
_determine_result_EveryCategory(cfg, category_results) ==
    IF AllPassed(category_results) THEN <<TRUE, "pass">>
    ELSE IF Tol(ToleranceOf(cfg), "allow_partial_pass", FALSE)
            /\ NumLe(PartialPassRate,
                     NumDiv(Sum([i \in DOMAIN category_results |->
                                    pass_rate(category_results[i])]),
                            Num(Len(category_results))))
    THEN <<FALSE, "partial">>
    ELSE <<FALSE, "fail">>

\* ScreeningEngine._determine_result: <<passed, result_type>>
_determine_result(cfg, category_results) ==
    LET required_categories == SelectSeq(category_results, LAMBDA c : c.required)
        all_required_passed == AllPassed(required_categories)
        rates == [i \in DOMAIN category_results |-> pass_rate(category_results[i])]
    IN  IF all_required_passed THEN <<TRUE, "pass">>
        ELSE IF Tol(ToleranceOf(cfg), "allow_partial_pass", FALSE)
                /\ NumLe(PartialPassRate,
                         NumDiv(Sum(rates), Num(Len(category_results))))
        THEN <<FALSE, "partial">>
        ELSE <<FALSE, "fail">>

\* the concatenation of the lists of a list
RECURSIVE Flatten(_)
Flatten(lists) == IF lists = <<>> THEN <<>> ELSE Head(lists) \o Flatten(Tail(lists))

\* ScreeningEngine._generate_suggestions
_generate_suggestions(failed_criteria) ==
    LET critical_failed == OfImportance(failed_criteria, "critical")
        high_failed == OfImportance(failed_criteria, "high")
        bullets(list) == [i \in DOMAIN FirstThree(list) |->
                             Msg("bullet", <<Str(list[i].name), list[i].reason>>)]
    IN  (IF Len(critical_failed) > 0
         THEN <<Msg("critical_not_met", <<Num(Len(critical_failed))>>)>>
                  \o bullets(critical_failed)
         ELSE <<>>)
        \o
        (IF Len(high_failed) > 0
         THEN <<Msg("high_to_improve", <<Num(Len(high_failed))>>)>> \o bullets(high_failed)
         ELSE <<>>)

\* ScreeningEngine._apply_industry_adjustments: the config screen() goes on with,
\* or the exception of logging adjustments['name']
_apply_industry_adjustments(cfg, ind) ==
    IF IsNone(ind) \/ ind.s = "" \/ "industry_adjustments" \notin DOMAIN cfg THEN cfg
    ELSE IF ind.s \notin DOMAIN cfg.industry_adjustments THEN cfg
    ELSE IF DOMAIN cfg.industry_adjustments[ind.s] = {} THEN cfg
    ELSE IF "name" \notin DOMAIN cfg.industry_adjustments[ind.s] THEN Raise("KeyError")
    ELSE cfg

\* a variant of total_pass_rate that averages the pass rates of the categories
total_pass_rate_PerCategory(result) ==
    IF Len(result.category_results) = 0 THEN Num(0)
    ELSE NumDiv(Sum([i \in DOMAIN result.category_results |->
                        pass_rate(result.category_results[i])]),
                Num(Len(result.category_results)))

\* ScreeningResult.total_pass_rate
total_pass_rate(result) ==
    LET all_criteria ==
            Flatten([i \in DOMAIN result.category_results |->
                        result.category_results[i].criteria_results])
    IN  IF Len(all_criteria) = 0 THEN Num(0)
        ELSE Rat(CountPassed(all_criteria), Len(all_criteria))

\* a variant of FailedCriteria that keeps the failed critical criteria only
FailedCriteria_CriticalOnly(category_results) ==
    Flatten([i \in DOMAIN category_results |->
                SelectSeq(category_results[i].criteria_results,
                          LAMBDA c : ~c.passed /\ c.importance = "critical")])

\* [c for c in criteria_results if not c.passed], over all categories in order
FailedCriteria(category_results) ==
    Flatten([i \in DOMAIN category_results |->
                SelectSeq(category_results[i].criteria_results, LAMBDA c : ~c.passed)])

\* step 5 of screen(): the ScreeningResult of the verdict and the failed criteria
ScreeningResult(cfg, verdict, category_results, all_failed_criteria) ==
    [framework_name |-> cfg.name,
     framework_description |-> cfg.description,
     passed |-> verdict[1],
     result_type |-> verdict[2],
     category_results |-> category_results,
     failed_criteria |-> all_failed_criteria,
     suggestions |-> _generate_suggestions(all_failed_criteria)]

\* steps 3 to 5 of screen(), once every category is checked
ScreenCategories(cfg, category_results) ==
    IF AnyRaised(category_results) THEN FirstRaised(category_results)
    ELSE IF "description" \notin DOMAIN cfg THEN Raise("KeyError")
    ELSE ScreeningResult(cfg, _determine_result(cfg, category_results),
                         category_results, FailedCriteria(category_results))

\* steps 2 to 5 of screen() on the adjusted config
ScreenAdjusted(cfg, adjusted_config, current_metrics, historical_metrics) ==
    IF Raised(adjusted_config) THEN adjusted_config
    ELSE IF "categories" \notin DOMAIN adjusted_config THEN Raise("KeyError")
    ELSE ScreenCategories(cfg,
             [i \in DOMAIN adjusted_config.categories |->
                 _check_category(cfg, adjusted_config.categories[i],
                                 current_metrics, historical_metrics)])

\* ScreeningEngine.screen on a constructed engine holding cfg
screen(cfg, current_metrics, historical_metrics, ind) ==
    IF "name" \notin DOMAIN cfg THEN Raise("KeyError")
    ELSE ScreenAdjusted(cfg, _apply_industry_adjustments(cfg, ind),
                        current_metrics, historical_metrics)

----------------------------------------------------------------------------
(* FrameworkEngine: condition strings *)

\* A condition string of the config, as the expression Python's eval parses it to:
\*   [kind |-> "cmp", var, op, rhs]                 "value >= 0.5", "pe_ratio > 50"
\*   [kind |-> "chain", lo, lo_op, var, hi_op, hi]  "0 <= value < 0.10"
\*   [kind |-> "and", left, right]                  "a > 1 and b < 0"
\*   [kind |-> "call", fn, var]                     "abs(value)", "len(value)"
\*   [kind |-> "attr", var]                         "value.real", "value.__class__"
\*   [kind |-> "syntax_error"]                      a string eval cannot parse
Bool(b) == [t |-> "bool", v |-> b]

\* bool(x)
Truthy(x) ==
    CASE x.t = "bool" -> x.v
      [] x.t = "none" -> FALSE
      [] x.t = "num" -> x.n # 0
      [] x.t = "str" -> x.s # ""
      [] OTHER -> TRUE

\* a comparison inside eval: an ordering of unorderable operands raises TypeError
PyCompare(a, op, b) ==
    IF op \notin {"==", "!="} /\ ~Orderable(a, b) THEN Raise("TypeError")
    ELSE Bool(_compare(a, op, b))

\* a name looked up in eval's namespace ({"__builtins__": {}} holds nothing else)
Lookup(namespace, var) ==
    IF var \in DOMAIN namespace THEN namespace[var] ELSE Raise("NameError")

\* eval(condition, {"__builtins__": {}}, namespace): a value or an exception
RECURSIVE Eval(_, _)
Eval(e, namespace) ==
    CASE e.kind = "syntax_error" -> Raise("SyntaxError")
      [] e.kind = "cmp" ->
            LET x == Lookup(namespace, e.var)
            IN  IF Raised(x) THEN x ELSE PyCompare(x, e.op, e.rhs)
      [] e.kind = "chain" ->
            LET x == Lookup(namespace, e.var)
                first == PyCompare(e.lo, e.lo_op, x)
            IN  IF Raised(x) THEN x
                ELSE IF Raised(first) THEN first
                ELSE IF ~first.v THEN first
                ELSE PyCompare(x, e.hi_op, e.hi)
      [] e.kind = "and" ->
            LET l == Eval(e.left, namespace)
            IN  IF Raised(l) THEN l
                ELSE IF ~Truthy(l) THEN l
                ELSE Eval(e.right, namespace)
      [] e.kind = "call" -> Raise("NameError")
      [] e.kind = "attr" ->
            LET x == Lookup(namespace, e.var)
            IN  IF Raised(x) THEN x ELSE [t |-> "object"]

\* a variant of _evaluate_condition in which a condition that raises counts as met
_evaluate_condition_RaiseIsTrue(condition, value) ==
    LET result == Eval(condition, [k \in {"value"} |-> value])
    IN  IF Raised(result) THEN TRUE ELSE Truthy(result)

\* FrameworkEngine._evaluate_condition: any exception is logged and gives False
_evaluate_condition(condition, value) ==
    LET namespace == [k \in {"value"} |-> value]
        result == Eval(condition, namespace)
    IN  IF Raised(result) THEN FALSE ELSE Truthy(result)

----------------------------------------------------------------------------
(* FrameworkEngine: scoring *)

\* rule.get('comment', '')
CommentOf(rule) == IF "comment" \in DOMAIN rule THEN rule.comment ELSE ""

\* does the walk of _evaluate_metric stop at this rule: a default rule, or a
\* conditional rule whose condition holds (and whose score can be read: the
\* KeyError of a missing 'score' is caught by the same try and the walk goes on)
RuleMatches(rule, value) ==
    \/ "default" \in DOMAIN rule
    \/ /\ "condition" \in DOMAIN rule
       /\ _evaluate_condition(rule.condition, value)
       /\ "score" \in DOMAIN rule

\* a variant of the walk in which a default rule does not end the walk: it is taken
\* only if no rule after it matches
RECURSIVE WalkRules_DefaultLast(_, _, _)
WalkRules_DefaultLast(rules, i, value) ==
    IF i > Len(rules) THEN [score |-> Num(0), comment |-> "no_rule_matched"]
    ELSE LET rule == rules[i]
             later == WalkRules_DefaultLast(rules, i + 1, value)
         IN  IF "default" \in DOMAIN rule
             THEN IF later.comment = "no_rule_matched"
                  THEN [score |-> rule.default, comment |-> CommentOf(rule)]
                  ELSE later
             ELSE IF RuleMatches(rule, value)
             THEN [score |-> rule.score, comment |-> CommentOf(rule)]
             ELSE later

\* the walk over the rules from position i: <<score, comment>> as a record
RECURSIVE WalkRules(_, _, _)
WalkRules(rules, i, value) ==
    IF i > Len(rules) THEN [score |-> Num(0), comment |-> "no_rule_matched"]
    ELSE LET rule == rules[i]
         IN  IF "default" \in DOMAIN rule
             THEN [score |-> rule.default, comment |-> CommentOf(rule)]
             ELSE IF "condition" \notin DOMAIN rule THEN Raise("KeyError")
             ELSE IF RuleMatches(rule, value)
             THEN [score |-> rule.score, comment |-> CommentOf(rule)]
             ELSE WalkRules(rules, i + 1, value)

\* a variant of _evaluate_metric that walks the rules for a missing value too
_evaluate_metric_NoMissingCheck(metric_config, value) ==
    WalkRules(metric_config.rules, 1, value)

\* FrameworkEngine._evaluate_metric
_evaluate_metric(metric_config, value) ==
    IF IsNone(value) THEN [score |-> Num(0), comment |-> "data_missing"]
    ELSE WalkRules(metric_config.rules, 1, value)

\* the MetricScore built from a metric's value and its (score, comment), or the
\* exception of _evaluate_metric
MetricScore(metric_config, metric_value, scored) ==
    IF Raised(scored) THEN scored
    ELSE [name |-> metric_config.name,
          display_name |-> metric_config.display_name,
          value |-> metric_value,
          score |-> scored.score,
          max_score |-> metric_config.weight,
          comment |-> scored.comment,
          unit |-> IF "unit" \in DOMAIN metric_config THEN metric_config.unit ELSE ""]

\* one pass of the loop of _evaluate_category
ScoreMetric(metric_config, metric_value) ==
    MetricScore(metric_config, metric_value, _evaluate_metric(metric_config, metric_value))

\* a variant of CategoryScore whose max_score is the sum of the metric weights
CategoryScore_MetricWeights(category, metric_scores) ==
    IF AnyRaised(metric_scores) THEN FirstRaised(metric_scores)
    ELSE [name |-> category.name,
          description |-> category.description,
          score |-> Sum([i \in DOMAIN metric_scores |-> metric_scores[i].score]),
          max_score |-> Sum([i \in DOMAIN metric_scores |-> metric_scores[i].max_score]),
          metrics |-> metric_scores]

\* the CategoryScore built from the metric scores, or their first exception
CategoryScore(category, metric_scores) ==
    IF AnyRaised(metric_scores) THEN FirstRaised(metric_scores)
    ELSE [name |-> category.name,
          description |-> category.description,
          score |-> Sum([i \in DOMAIN metric_scores |-> metric_scores[i].score]),
          max_score |-> category.weight,
          metrics |-> metric_scores]

\* FrameworkEngine._evaluate_category
_evaluate_category(category, metrics) ==
    CategoryScore(category,
                  [i \in DOMAIN category.metrics |->
                      ScoreMetric(category.metrics[i],
                                  Get(metrics, category.metrics[i].name))])

\* the default recommendation: ("观察", "评分异常，建议人工审核", "未知")
DefaultRecommendation ==
    [action |-> "observe", reasoning |-> "score_anomaly_manual_review",
     risk_level |-> "unknown"]

\* a variant of _generate_recommendation that returns the last entry whose range
\* contains the score
_generate_recommendation_LastWins(cfg, total_score) ==
    LET recommendations == cfg.recommendations
        hits == {i \in DOMAIN recommendations :
                    /\ NumLe(recommendations[i].score_range[1], total_score)
                    /\ NumLe(total_score, recommendations[i].score_range[2])}
    IN  IF hits = {} THEN DefaultRecommendation
        ELSE LET rec == recommendations[CHOOSE i \in hits : \A j \in hits : j <= i]
             IN  [action |-> rec.action, reasoning |-> rec.reasoning,
                  risk_level |-> rec.risk_level]

\* FrameworkEngine._generate_recommendation
_generate_recommendation(cfg, total_score) ==
    LET recommendations == cfg.recommendations
        hits == {i \in DOMAIN recommendations :
                    /\ NumLe(recommendations[i].score_range[1], total_score)
                    /\ NumLe(total_score, recommendations[i].score_range[2])}
    IN  IF hits = {} THEN DefaultRecommendation
        ELSE LET rec == recommendations[CHOOSE i \in hits : \A j \in hits : i <= j]
             IN  [action |-> rec.action, reasoning |-> rec.reasoning,
                  risk_level |-> rec.risk_level]

\* {k: v for k, v in metrics.items() if v is not None}
NonNull(metrics) == [k \in {x \in DOMAIN metrics : ~IsNone(metrics[x])} |-> metrics[k]]

\* one pass of the loop of _check_risk_alerts: the alerts appended (none or one)
AlertOf(alert_config, metrics) ==
    LET result == Eval(alert_config.condition, NonNull(metrics))
    IN  IF Raised(result) THEN <<>>
        ELSE IF ~Truthy(result) THEN <<>>
        ELSE IF {"level", "message"} \subseteq DOMAIN alert_config
        THEN <<Msg("alert", <<Str(alert_config.level), Str(alert_config.message)>>)>>
        ELSE <<>>

\* a variant of _check_risk_alerts whose loop ends at the first condition that raises
_check_risk_alerts_StopAtFailure(cfg, metrics) ==
    LET alerts == IF "risk_alerts" \in DOMAIN cfg THEN cfg.risk_alerts ELSE <<>>
        failing == {i \in DOMAIN alerts :
                       Raised(Eval(alerts[i].condition, NonNull(metrics)))}
        last == IF failing = {} THEN Len(alerts)
                ELSE (CHOOSE i \in failing : \A j \in failing : i <= j) - 1
    IN  IF \E i \in DOMAIN alerts : "condition" \notin DOMAIN alerts[i]
        THEN Raise("KeyError")
        ELSE [alerts |-> Flatten([i \in 1..last |-> AlertOf(alerts[i], metrics)])]

\* FrameworkEngine._check_risk_alerts: [alerts |-> the list], or the KeyError of an
\* entry without a condition
_check_risk_alerts(cfg, metrics) ==
    LET alerts == IF "risk_alerts" \in DOMAIN cfg THEN cfg.risk_alerts ELSE <<>>
    IN  IF \E i \in DOMAIN alerts : "condition" \notin DOMAIN alerts[i]
        THEN Raise("KeyError")
        ELSE [alerts |-> Flatten([i \in DOMAIN alerts |-> AlertOf(alerts[i], metrics)])]

\* a variant of AnalysisResult whose max_score is that of the last category
\* (`max_score = category_result.max_score` for `max_score += ...`)
AnalysisResult_LastMax(cfg, total_score, category_scores, rec, risk_alerts) ==
    IF Raised(risk_alerts) THEN risk_alerts
    ELSE IF "description" \notin DOMAIN cfg THEN Raise("KeyError")
    ELSE [framework_name |-> cfg.name,
          framework_description |-> cfg.description,
          total_score |-> total_score,
          max_score |-> IF category_scores = <<>> THEN Num(0)
                        ELSE category_scores[Len(category_scores)].max_score,
          category_scores |-> category_scores,
          recommendation |-> rec.action,
          reasoning |-> rec.reasoning,
          risk_level |-> rec.risk_level,
          risk_alerts |-> risk_alerts.alerts]

\* step 4 of analyze(): the AnalysisResult
AnalysisResult(cfg, total_score, category_scores, rec, risk_alerts) ==
    IF Raised(risk_alerts) THEN risk_alerts
    ELSE IF "description" \notin DOMAIN cfg THEN Raise("KeyError")
    ELSE [framework_name |-> cfg.name,
          framework_description |-> cfg.description,
          total_score |-> total_score,
          max_score |-> Sum([i \in DOMAIN category_scores |-> category_scores[i].max_score]),
          category_scores |-> category_scores,
          recommendation |-> rec.action,
          reasoning |-> rec.reasoning,
          risk_level |-> rec.risk_level,
          risk_alerts |-> risk_alerts.alerts]

\* AnalysisResult.score_percentage
score_percentage(result) ==
    IF NumLt(Num(0), result.max_score)
    THEN NumMul(NumDiv(result.total_score, result.max_score), Num(100))
    ELSE Num(0)

\* a variant of grade whose steps are strict (score > 90, > 80, ...)
grade_StrictSteps(result) ==
    LET score == score_percentage(result)
    IN  IF NumLt(Num(90), score) THEN "A+"
        ELSE IF NumLt(Num(80), score) THEN "A"
        ELSE IF NumLt(Num(70), score) THEN "B"
        ELSE IF NumLt(Num(60), score) THEN "C"
        ELSE IF NumLt(Num(50), score) THEN "D"
        ELSE "F"

\* AnalysisResult.grade
grade(result) ==
    LET score == score_percentage(result)
    IN  IF NumLe(Num(90), score) THEN "A+"
        ELSE IF NumLe(Num(80), score) THEN "A"
        ELSE IF NumLe(Num(70), score) THEN "B"
        ELSE IF NumLe(Num(60), score) THEN "C"
        ELSE IF NumLe(Num(50), score) THEN "D"
        ELSE "F"

\* steps 2 to 4 of analyze(), once every category is scored and summed
AnalyzeTotal(cfg, metrics, category_scores, total_score) ==
    AnalysisResult(cfg, total_score, category_scores,
                   _generate_recommendation(cfg, total_score),
                   _check_risk_alerts(cfg, metrics))

\* analyze() after its loop over the categories
AnalyzeCategories(cfg, metrics, category_scores) ==
    IF AnyRaised(category_scores) THEN FirstRaised(category_scores)
    ELSE IF "recommendations" \notin DOMAIN cfg THEN Raise("KeyError")
    ELSE AnalyzeTotal(cfg, metrics, category_scores,
                      Sum([i \in DOMAIN category_scores |-> category_scores[i].score]))

\* FrameworkEngine.analyze on a constructed engine holding cfg
analyze(cfg, metrics) ==
    IF "name" \notin DOMAIN cfg \/ "categories" \notin DOMAIN cfg THEN Raise("KeyError")
    ELSE AnalyzeCategories(cfg, metrics,
                           [i \in DOMAIN cfg.categories |->
                               _evaluate_category(cfg.categories[i], metrics)])

----------------------------------------------------------------------------
(* Inputs of the model: config documents and metrics *)

\* longest history passed to screen()
MaxHistory == 5

\* the values a metric takes in the model, by metric name
ValuesOf(k) ==
    CASE k = "rating" -> {None, Str("B"), Str("A"), Str("AA"), Str("AAA"), Str("BBB")}
      [] k \in {"m1", "m2", "m3", "m4", "m5", "m6", "m7", "m8", "m9", "m10", "m11",
                "m12"} -> {Num(0), Num(1)}
      [] k = "revenue" -> {Num(100), Num(200)}
      [] k = "v" -> {None, Num(0), Num(100), Num(400), Str("AA")}
      [] k = "pe" -> {None, Num(100)}
      [] k \in {"s1", "s2", "s3", "s4", "s5", "s6"} ->
             {None, Rat(1, 10), Rat(3, 10), Rat(6, 10), Str("N/A")}
      [] OTHER -> {None, Num(-100), Num(0), Num(100), Num(400)}

\* every dict over a subset of keys (a key may be absent, or bound to one of its values)
MapsOver(keys) ==
    UNION {{f \in [K -> UNION {ValuesOf(k) : k \in K}] : \A k \in K : f[k] \in ValuesOf(k)}
           : K \in SUBSET keys}

\* every dict binding all of keys
TotalMapsOver(keys) ==
    {f \in [keys -> UNION {ValuesOf(k) : k \in keys}] : \A k \in keys : f[k] \in ValuesOf(k)}

\* the criteria of a screening config
CriteriaOf(cfg) ==
    IF "categories" \in DOMAIN cfg
    THEN Flatten([i \in DOMAIN cfg.categories |-> cfg.categories[i].criteria])
    ELSE <<>>

CurrentTypes ==
    {"simple", "latest_quarter", "compare_benchmark", "negative_screen", "rating",
     "historical_percentile"}

HistoryTypes == {"consecutive_years", "cagr", "historical_percentile", "volatility"}

\* metric names the criteria read from current_metrics / from the history
CurrentKeys(cfg) ==
    {CriteriaOf(cfg)[i].metric :
        i \in {j \in DOMAIN CriteriaOf(cfg) : CriteriaOf(cfg)[j].check_type \in CurrentTypes}}

HistoryKeys(cfg) ==
    {CriteriaOf(cfg)[i].metric :
        i \in {j \in DOMAIN CriteriaOf(cfg) : CriteriaOf(cfg)[j].check_type \in HistoryTypes}}
    \cup
    (IF \E i \in DOMAIN CriteriaOf(cfg) :
            CriteriaOf(cfg)[i].check_type = "valuation_expansion"
     THEN {"market_cap", "net_profit"} ELSE {})

\* the most years any criterion looks back
YearsNeeded(cfg) ==
    LET ys == {YearsOf(CriteriaOf(cfg)[i]) :
                  i \in {j \in DOMAIN CriteriaOf(cfg) :
                            CriteriaOf(cfg)[j].check_type
                                \in HistoryTypes \cup {"valuation_expansion"}}}
    IN  IF ys = {} THEN 0 ELSE CHOOSE y \in ys : \A z \in ys : z <= y

\* current_metrics arguments of screen(): the pass/fail metrics m1.. are always bound
ScreenCurrents(cfg) ==
    IF \E k \in CurrentKeys(cfg) : ValuesOf(k) = {Num(0), Num(1)}
    THEN TotalMapsOver(CurrentKeys(cfg))
    ELSE MapsOver(CurrentKeys(cfg))

\* historical_metrics arguments of screen(): None, or a list of snapshots; no check
\* reads beyond the years it looks back, so one more snapshot than that is enough
ScreenHistories(cfg) ==
    IF HistoryKeys(cfg) = {} THEN {None, [t |-> "list", items |-> <<>>]}
    ELSE {None} \cup
         {[t |-> "list", items |-> h] :
             h \in UNION {[1..n -> MapsOver(HistoryKeys(cfg))] :
                             n \in 0..Min(MaxHistory, YearsNeeded(cfg) + 1)}}

\* industry arguments of screen(): without industry_adjustments in the config the
\* argument is not looked at beyond `not industry`
IndustriesFor(cfg) ==
    IF "industry_adjustments" \in DOMAIN cfg
    THEN {None, Str(""), Str("bank"), Str("retail"), Str("unknown")}
    ELSE {None}

\* a config document with the three documented top-level keys
Doc(categories) ==
    [name |-> "framework", description |-> "desc", categories |-> categories]

\* a dict without one of its keys
Drop(doc, key) == [k \in DOMAIN doc \ {key} |-> doc[k]]

\* a criterion with the keys every check reads for its result
Crit(fields) == fields @@ [name |-> "c", description |-> "d"]

ScreenCategory(required, criteria) ==
    [name |-> "cat", description |-> "cd", required |-> required, criteria |-> criteria]

Operators == {">", ">=", "<", "<=", "==", "!="}

\* criteria of every check type
CriterionPool ==
    {Crit([check_type |-> "simple", metric |-> "x", threshold |-> Num(100),
           operator |-> op]) : op \in {">=", "<", "==", "=>"}}
    \cup
    {Crit([check_type |-> "simple", metric |-> "v", threshold |-> Num(100),
           operator |-> op]) : op \in Operators \cup {"=>", ""}}
    \cup
    {Crit([check_type |-> "latest_quarter", metric |-> "x", threshold |-> Num(0),
           operator |-> ">", importance |-> "high"])}
    \cup
    {Crit([check_type |-> "compare_benchmark", metric |-> "x", operator |-> ">"]),
     Crit([check_type |-> "compare_benchmark", metric |-> "x", operator |-> ">=",
           benchmark_value |-> Num(100)])}
    \cup
    {Crit([check_type |-> "negative_screen", metric |-> "x", threshold |-> Num(th)])
        : th \in {0, 100}}
    \cup
    {Crit([check_type |-> "rating", metric |-> "rating", threshold |-> Str("AA"),
           rating_scale |-> <<Str("B"), Str("A"), Str("AA"), Str("AAA")>>]),
     Crit([check_type |-> "rating", metric |-> "rating", threshold |-> Str("BBB"),
           rating_scale |-> <<Str("B"), Str("A"), Str("AA"), Str("AAA")>>]),
     Crit([check_type |-> "rating", metric |-> "rating", threshold |-> Str("AA"),
           rating_scale |-> <<>>]),
     Crit([check_type |-> "rating", metric |-> "rating", threshold |-> Str("AA")])}
    \cup
    {Crit([check_type |-> "consecutive_years", metric |-> "x", threshold |-> Num(100),
           operator |-> ">=", years |-> y]) : y \in {1, 2, 4}}
    \cup
    {Crit([check_type |-> "consecutive_years", metric |-> "x", threshold |-> Num(100),
           operator |-> "<", years |-> 2])}
    \cup
    {Crit([check_type |-> "cagr", metric |-> "x", threshold |-> Num(th), years |-> y])
        : th \in {0, 1}, y \in {1, 2}}
    \cup
    {Crit([check_type |-> "cagr", metric |-> "x", threshold |-> Num(th), years |-> y,
           operator |-> op]) : th \in {0, 1}, y \in {1, 2}, op \in Operators}
    \cup
    {Crit([check_type |-> "cagr", metric |-> "revenue", threshold |-> th, years |-> 4,
           operator |-> ">"]) : th \in {Rat(3, 20), Rat(1, 4)}}
    \cup
    {Crit([check_type |-> "historical_percentile", metric |-> "x", operator |-> "<",
           years |-> 3])}
    \cup
    {Crit([check_type |-> "volatility", metric |-> "x", threshold |-> Rat(1, 2),
           operator |-> "<", years |-> 3])}
    \cup
    {Crit([check_type |-> "historical_percentile", metric |-> "pe", operator |-> "<="]),
     Crit([check_type |-> "volatility", metric |-> "pe", threshold |-> Rat(1, 2),
           operator |-> "<"]),
     Crit([check_type |-> "volatility", metric |-> "x", threshold |-> Rat(1, 2),
           operator |-> "<", years |-> 4])}
    \cup
    {Crit([check_type |-> "valuation_expansion", threshold |-> Num(2), operator |-> "<",
           years |-> y]) : y \in {1, 2}}
    \cup
    {Crit([check_type |-> "ai_forecast", metric |-> "x", threshold |-> Num(0),
           operator |-> ">"])}

\* industry_adjustments: an entry with a name and an entry without one
Adjustments ==
    [bank |-> [name |-> "banking"], retail |-> [threshold_scale |-> 2]]

\* a criterion of a check type the engine does not know, between two simple criteria
\* of a first category (required or not) that a second category follows
UnknownTypeConfigs ==
    {Doc(<<ScreenCategory(required,
                          <<Crit([check_type |-> "simple", metric |-> "m1",
                                  operator |-> ">=", threshold |-> Num(1),
                                  importance |-> "high"]),
                            Crit([check_type |-> "ai_forecast", metric |-> "x",
                                  threshold |-> Num(0), operator |-> ">"]),
                            Crit([check_type |-> "simple", metric |-> "m2",
                                  operator |-> ">=", threshold |-> Num(1)])>>),
           ScreenCategory(TRUE, <<Crit([check_type |-> "simple", metric |-> "m3",
                                        operator |-> ">=", threshold |-> Num(1),
                                        importance |-> "critical"])>>)>>) :
        required \in BOOLEAN}

\* config documents with one category holding one criterion, and documents that
\* lack a top-level key or are empty (yaml.safe_load gives None)
CriterionConfigs ==
    {Doc(<<ScreenCategory(TRUE, <<c>>)>>) : c \in CriterionPool}
    \cup
    {Drop(Doc(<<ScreenCategory(TRUE, <<c>>)>>), key) :
        c \in {k \in CriterionPool : k.check_type = "negative_screen"},
        key \in {"name", "description", "categories"}}
    \cup
    {Doc(<<ScreenCategory(TRUE, <<c>>)>>) @@ [industry_adjustments |-> Adjustments] :
        c \in {k \in CriterionPool : k.check_type = "latest_quarter"}}
    \cup
    UnknownTypeConfigs
    \cup
    {None}

\* most criteria of a category in the tolerance family
MaxCriteria == 3

MetricNames == <<"m1", "m2", "m3", "m4", "m5", "m6", "m7", "m8", "m9", "m10", "m11", "m12">>

\* a simple criterion on a 0/1 metric that passes iff the metric is 1; without an
\* importance key the checks take 'medium'
PassCriterion(metric, importance) ==
    IF importance = "absent"
    THEN Crit([check_type |-> "simple", metric |-> metric, operator |-> ">=",
               threshold |-> Num(1)])
    ELSE Crit([check_type |-> "simple", metric |-> metric, operator |-> ">=",
               threshold |-> Num(1), importance |-> importance])

\* criteria of the given importances on the metrics from MetricNames[first] on
PassCriteria(importances, first) ==
    [i \in DOMAIN importances |-> PassCriterion(MetricNames[first + i - 1], importances[i])]

Importances == {"critical", "high", "medium", "low", "absent"}

Repeat(x, n) == [i \in 1..n |-> x]

\* the `tolerance` sections of the tolerance family
Tolerances ==
    {[critical_must_pass |-> TRUE], [critical_must_pass |-> FALSE],
     [high_min_pass_rate |-> Rat(1, 2)], [medium_min_pass_rate |-> Rat(1, 2)],
     [high_min_pass_rate |-> Num(1), medium_min_pass_rate |-> Rat(1, 3),
      critical_must_pass |-> FALSE]}

\* with a `tolerance` section from the set, and without one
WithTolerances(docs, tolerances) ==
    docs \cup {doc @@ [tolerance |-> t] : doc \in docs, t \in tolerances}

\* one non-required category of up to MaxCriteria criteria of any importance, or of
\* five criteria of one importance (so that 4/5 and 3/5 are pass rates)
ToleranceConfigs ==
    WithTolerances(
        {Doc(<<ScreenCategory(FALSE, PassCriteria(imps, 1))>>) :
            imps \in UNION {[1..n -> Importances] : n \in 1..MaxCriteria}
                     \cup {Repeat("high", 5), Repeat("medium", 5)}},
        Tolerances)

\* two categories, the first of five (or no) medium criteria and the second of one
\* critical criterion, each required, not required or without a `required` key
VerdictConfigs ==
    WithTolerances(
        {Doc(<<a, b>>) :
            a \in {ScreenCategory(r, PassCriteria(Repeat("medium", n), 1)) :
                      r \in BOOLEAN, n \in {0, 5}}
                  \cup {Drop(ScreenCategory(TRUE, PassCriteria(Repeat("medium", 5), 1)),
                             "required")},
            b \in {ScreenCategory(r, PassCriteria(<<"critical">>, 6)) : r \in BOOLEAN}}
        \cup {Doc(<<>>)},
        {[allow_partial_pass |-> TRUE], [allow_partial_pass |-> FALSE]})

\* most rules of a metric in the rule-list family
MaxRules == 3

\* the condition "value <op> <rhs>"
ValueCmp(op, rhs) == [kind |-> "cmp", var |-> "value", op |-> op, rhs |-> rhs]

\* rules of a metric: conditional rules (one of them a chained comparison), default
\* rules with a zero and a non-zero score, and conditional rules whose condition
\* cannot be parsed or calls a builtin
RulePool ==
    {[condition |-> ValueCmp(">=", Rat(1, 2)), score |-> Num(100), comment |-> "excellent"],
     [condition |-> ValueCmp(">=", Rat(1, 5)), score |-> Num(60), comment |-> "good"],
     [condition |-> [kind |-> "chain", lo |-> Num(0), lo_op |-> "<=", var |-> "value",
                     hi_op |-> "<", hi |-> Rat(1, 5)],
      score |-> Num(20)],
     [default |-> Num(0), comment |-> "poor"],
     [default |-> Num(30)],
     [condition |-> [kind |-> "syntax_error"], score |-> Num(80), comment |-> "unparsed"],
     [condition |-> [kind |-> "call", fn |-> "abs", var |-> "value"], score |-> Num(70),
      comment |-> "called"],
     [condition |-> ValueCmp("==", Rat(3, 10)), score |-> Rat(119, 2),
      comment |-> "fractional"]}

\* the rule list of the spec's example: value>=0.5 -> 100, value>=0.2 -> 60, default 0
ExampleRules ==
    <<[condition |-> ValueCmp(">=", Rat(1, 2)), score |-> Num(100), comment |-> "excellent"],
      [condition |-> ValueCmp(">=", Rat(1, 5)), score |-> Num(60), comment |-> "good"],
      [default |-> Num(0), comment |-> "poor"]>>

ScoredMetric(name, rules) ==
    [name |-> name, display_name |-> "shown", weight |-> Num(100), unit |-> "%",
     rules |-> rules]

ScoringCategory(metrics) ==
    [name |-> "cat", description |-> "cd", weight |-> Num(100), metrics |-> metrics]

Recommendations ==
    <<[score_range |-> <<Num(60), Num(100)>>, action |-> "buy", reasoning |-> "strong",
       risk_level |-> "low"],
      [score_range |-> <<Num(0), Num(59)>>, action |-> "avoid", reasoning |-> "weak",
       risk_level |-> "high"]>>

\* "s1 > 0.5", "s1 > 0.2 and s2 < 0.2", and an alert that cannot be parsed
RiskAlerts ==
    <<[condition |-> [kind |-> "cmp", var |-> "s1", op |-> ">", rhs |-> Rat(1, 2)],
       level |-> "warning", message |-> "s1 high"],
      [condition |-> [kind |-> "and",
                      left |-> [kind |-> "cmp", var |-> "s1", op |-> ">", rhs |-> Rat(1, 5)],
                      right |-> [kind |-> "cmp", var |-> "s2", op |-> "<", rhs |-> Rat(1, 5)]],
       level |-> "danger", message |-> "s1 up s2 down"],
      [condition |-> [kind |-> "syntax_error"], level |-> "info", message |-> "unparsed"]>>

ScoringDoc(categories) == Doc(categories) @@ [recommendations |-> Recommendations]

Recommendation(min, max, action) ==
    [score_range |-> <<Num(min), Num(max)>>, action |-> action, reasoning |-> action,
     risk_level |-> action]

\* recommendations[] with a gap between integer ranges (59..60), with overlapping
\* ranges in both orders, and without entries
RecommendationLists ==
    {Recommendations,
     <<Recommendation(50, 100, "buy"), Recommendation(0, 60, "avoid")>>,
     <<Recommendation(0, 60, "avoid"), Recommendation(50, 100, "buy")>>,
     <<>>}

\* one metric with every rule list of up to MaxRules rules
RuleListConfigs ==
    {Doc(<<ScoringCategory(<<ScoredMetric("s1", rules)>>)>>) @@ [recommendations |-> recs] :
        rules \in UNION {[1..n -> RulePool] : n \in 0..MaxRules},
        recs \in RecommendationLists}

\* rule lists of the metrics of the configs with several metrics and categories
SomeRuleLists ==
    {ExampleRules,
     <<[condition |-> [kind |-> "syntax_error"], score |-> Num(80), comment |-> "unparsed"],
       [condition |-> ValueCmp(">=", Rat(1, 5)), score |-> Num(60), comment |-> "good"],
       [default |-> Num(30)]>>,
     <<[default |-> Num(30)]>>}

\* two categories of two and one metrics, with and without risk alerts
CategoryConfigs ==
    LET docs == {ScoringDoc(<<ScoringCategory(<<ScoredMetric("s1", r1),
                                                 ScoredMetric("s2", r2)>>),
                              [ScoringCategory(<<ScoredMetric("s3", r3)>>)
                                  EXCEPT !.name = "second", !.weight = Num(50)]>>) :
                    r1 \in SomeRuleLists, r2 \in SomeRuleLists, r3 \in SomeRuleLists}
    IN  {doc @@ [risk_alerts |-> RiskAlerts] : doc \in docs}
        \cup {ScoringDoc(<<ScoringCategory(<<ScoredMetric("s1", ExampleRules)>>),
                           ScoringCategory(<<>>)>>),
              ScoringDoc(<<>>)}

\* "s2 < 0.5", an alert that cannot be parsed, "s1 > 0.5", "s1 > 0.2 and s2 < 0.2"
LaterAlerts ==
    <<[condition |-> [kind |-> "cmp", var |-> "s2", op |-> "<", rhs |-> Rat(1, 2)],
       level |-> "danger", message |-> "s2 low"],
      [condition |-> [kind |-> "syntax_error"], level |-> "info", message |-> "unparsed"],
      RiskAlerts[1],
      RiskAlerts[2]>>

\* one category of two metrics, with risk alerts over both metrics
AlertConfigs ==
    {ScoringDoc(<<ScoringCategory(<<ScoredMetric("s1", ExampleRules),
                                    ScoredMetric("s2", ExampleRules)>>)>>)
         @@ [risk_alerts |-> alerts] : alerts \in {LaterAlerts, <<>>}}

\* one metric whose first rule has a condition that leaves the bound variable,
\* "value.__class__" or "len(value)", and a risk alert on "s1.__class__"
SandboxConfigs ==
    {ScoringDoc(<<ScoringCategory(<<ScoredMetric("s1",
                      <<[condition |-> c, score |-> Num(80), comment |-> "escaped"],
                        [default |-> Num(0)]>>)>>)>>)
         @@ [risk_alerts |-> <<[condition |-> [kind |-> "attr", var |-> "s1"],
                                level |-> "info", message |-> "escaped"]>>] :
        c \in {[kind |-> "attr", var |-> "value"],
               [kind |-> "call", fn |-> "len", var |-> "value"]}}

\* two categories whose rule scores stay within the metric weights (60 and 40; 50) and
\* whose metric weights add up to the category weight or less (100 or 120; 50)
BoundedConfigs ==
    {ScoringDoc(<<[ScoringCategory(
                      <<[ScoredMetric("s1",
                            <<[condition |-> ValueCmp(">=", Rat(1, 2)), score |-> Num(60)],
                              [condition |-> ValueCmp(">=", Rat(1, 5)), score |-> Num(30)],
                              [default |-> Num(0)]>>) EXCEPT !.weight = Num(60)],
                        [ScoredMetric("s2",
                            <<[condition |-> ValueCmp(">=", Rat(1, 2)), score |-> Num(40)],
                              [default |-> Num(10)]>>) EXCEPT !.weight = Num(40)]>>)
                      EXCEPT !.weight = Num(weight)],
                  [ScoringCategory(
                      <<[ScoredMetric("s3",
                            <<[condition |-> ValueCmp(">=", Rat(1, 2)), score |-> Num(50)],
                              [condition |-> ValueCmp(">=", Rat(1, 5)),
                               score |-> Rat(51, 2)]>>) EXCEPT !.weight = Num(50)]>>)
                      EXCEPT !.name = "second", !.weight = Num(50)]>>) :
        weight \in {100, 120}}

\* the scores of the grade family: both sides of every step of the grade
GradeScores ==
    {Num(0), Num(49), Num(50), Num(59), Num(60), Num(69), Num(70), Num(79), Num(80),
     Num(89), Rat(179, 2), Num(90), Num(100)}

\* one category of weight 0, 100 or 200 whose metric scores a fixed number of points
GradeConfigs ==
    {ScoringDoc(<<[ScoringCategory(<<ScoredMetric("s1", <<[default |-> score]>>)>>)
                      EXCEPT !.weight = weight]>>) :
        score \in GradeScores, weight \in {Num(0), Num(100), Num(200)}}

\* scoring documents that lack a top-level key or are empty
BrokenScoringConfigs ==
    {Drop(ScoringDoc(<<ScoringCategory(<<ScoredMetric("s1", ExampleRules)>>)>>), key) :
        key \in {"name", "description", "categories", "recommendations"}}
    \cup {None}

ScoringConfigs ==
    RuleListConfigs \cup CategoryConfigs \cup AlertConfigs \cup GradeConfigs
        \cup SandboxConfigs \cup BoundedConfigs
        \cup BrokenScoringConfigs

\* metric names a scoring config reads
MetricKeys(cfg) ==
    IF "categories" \notin DOMAIN cfg THEN {}
    ELSE UNION {{cfg.categories[i].metrics[j].name : j \in DOMAIN cfg.categories[i].metrics}
                   : i \in DOMAIN cfg.categories}

\* metrics arguments of analyze()
AnalyzeMetrics(cfg) == MapsOver(MetricKeys(cfg))

----------------------------------------------------------------------------
(* The state machine: construct an engine from a document, then call it *)

InitWith(kind, docs) ==
    /\ engine = kind
    /\ config \in docs
    /\ phase = "new"
    /\ current = <<>>
    /\ history = None
    /\ industry = None
    /\ outcome = NoOutcome
    /\ calls = <<>>

\* what _load_config raises on a document, or NoOutcome: the only key it reads is
\* config['name'], for the log line
_load_config(doc) ==
    IF "t" \in DOMAIN doc THEN Raise("TypeError")
    ELSE IF "name" \notin DOMAIN doc THEN Raise("KeyError")
    ELSE NoOutcome

\* the call ends: its result or exception is the outcome
Finish(r, on_raise, on_return) ==
    /\ outcome' = r
    /\ phase' = IF Raised(r) THEN on_raise ELSE on_return

\* ScreeningEngine.__init__ / FrameworkEngine.__init__
LoadConfig ==
    /\ phase = "new"
    /\ Finish(_load_config(config), "load_failed", "ready")
    /\ UNCHANGED <<engine, config, current, history, industry, calls>>

\* a call of ScreeningEngine.screen
Screen ==
    /\ engine = "screening"
    /\ phase = "ready"
    /\ \E cur \in ScreenCurrents(config), hist \in ScreenHistories(config),
          ind \in IndustriesFor(config) :
          /\ current' = cur
          /\ history' = hist
          /\ industry' = ind
          /\ Finish(screen(config, cur, hist, ind), "raised", "returned")
    /\ UNCHANGED <<engine, config, calls>>

Init == InitWith("screening", CriterionConfigs)

Next == LoadConfig \/ Screen

Spec == Init /\ [][Next]_vars

\* screening configs of several criteria and categories, for the verdicts
InitVerdict == InitWith("screening", ToleranceConfigs \cup VerdictConfigs)

SpecVerdict == InitVerdict /\ [][Next]_vars

\* a call of FrameworkEngine.analyze
Analyze ==
    /\ engine = "scoring"
    /\ phase = "ready"
    /\ \E metrics \in AnalyzeMetrics(config) :
          /\ current' = metrics
          /\ Finish(analyze(config, metrics), "raised", "returned")
    /\ UNCHANGED <<engine, config, history, industry, calls>>

InitScoring == InitWith("scoring", ScoringConfigs)

NextScoring == LoadConfig \/ Analyze

SpecScoring == InitScoring /\ [][NextScoring]_vars

----------------------------------------------------------------------------
(* Two callers that share one constructed engine: each call is a sequence of steps, *)
(* one per category of the config, and the steps of the two calls interleave        *)

Threads == {1, 2}

\* configs of the shared engines: screening configs of two categories and one with
\* industry_adjustments, a scoring config of two categories with risk alerts
SharedConfigs ==
    UnknownTypeConfigs
    \cup {Doc(<<ScreenCategory(TRUE, <<c>>)>>) @@ [industry_adjustments |-> Adjustments] :
             c \in {k \in CriterionPool : k.check_type = "latest_quarter"}}
    \cup {ScoringDoc(<<ScoringCategory(<<ScoredMetric("s1", ExampleRules)>>),
                       [ScoringCategory(<<ScoredMetric("s2", ExampleRules)>>)
                           EXCEPT !.name = "second"]>>) @@ [risk_alerts |-> LaterAlerts]}

InitShared ==
    /\ config \in SharedConfigs
    /\ engine = IF "recommendations" \in DOMAIN config THEN "scoring" ELSE "screening"
    /\ phase = "new"
    /\ current = <<>>
    /\ history = None
    /\ industry = None
    /\ outcome = NoOutcome
    /\ calls = [t \in Threads |->
                   [pc |-> "idle", args |-> <<>>, results |-> <<>>, result |-> NoOutcome]]

\* the call of t ends with r, returned or raised
Done(t, r) == [calls EXCEPT ![t].pc = "done", ![t].result = r]

\* a variant of Collect in which the list of results is one list of the engine, which
\* every call in progress sees
Collect_SharedList(t, r) ==
    [u \in Threads |->
        IF calls[u].pc = "categories"
        THEN [calls[u] EXCEPT !.results = Append(@, r)]
        ELSE calls[u]]

\* category_results.append(category_result) / category_scores.append(category_result):
\* the list is a local of the call
Collect(t, r) == [calls EXCEPT ![t].results = Append(@, r)]

\* screen() up to its loop: the log line reads config['name'], the industry
\* adjustment returns self.config or raises, the loop reads its 'categories'
BeginScreen(t) ==
    /\ engine = "screening"
    /\ phase = "ready"
    /\ calls[t].pc = "idle"
    /\ \E cur \in ScreenCurrents(config), hist \in ScreenHistories(config),
          ind \in IndustriesFor(config) :
          LET args == [current |-> cur, history |-> hist, industry |-> ind]
              adjusted_config == IF "name" \notin DOMAIN config THEN Raise("KeyError")
                                 ELSE _apply_industry_adjustments(config, ind)
          IN  calls' = [calls EXCEPT ![t] =
                  IF Raised(adjusted_config)
                  THEN [pc |-> "done", args |-> args, results |-> <<>>,
                        result |-> adjusted_config]
                  ELSE IF "categories" \notin DOMAIN adjusted_config
                  THEN [pc |-> "done", args |-> args, results |-> <<>>,
                        result |-> Raise("KeyError")]
                  ELSE [pc |-> "categories", args |-> args, results |-> <<>>,
                        result |-> NoOutcome]]
    /\ UNCHANGED <<engine, config, phase, current, history, industry, outcome>>

\* one pass of the loop of screen(): adjusted_config is self.config itself
CheckCategory(t) ==
    /\ engine = "screening"
    /\ calls[t].pc = "categories"
    /\ Len(calls[t].results) < Len(config.categories)
    /\ LET category == config.categories[Len(calls[t].results) + 1]
           category_result == _check_category(config, category, calls[t].args.current,
                                              calls[t].args.history)
       IN  calls' = IF Raised(category_result) THEN Done(t, category_result)
                    ELSE Collect(t, category_result)
    /\ UNCHANGED <<engine, config, phase, current, history, industry, outcome>>

\* steps 3 to 5 of screen(), after the loop
EndScreen(t) ==
    /\ engine = "screening"
    /\ calls[t].pc = "categories"
    /\ Len(calls[t].results) = Len(config.categories)
    /\ calls' = Done(t, ScreenCategories(config, calls[t].results))
    /\ UNCHANGED <<engine, config, phase, current, history, industry, outcome>>

\* analyze() up to its loop
BeginAnalyze(t) ==
    /\ engine = "scoring"
    /\ phase = "ready"
    /\ calls[t].pc = "idle"
    /\ \E metrics \in AnalyzeMetrics(config) :
          LET args == [current |-> metrics]
          IN  calls' = [calls EXCEPT ![t] =
                  IF "name" \notin DOMAIN config \/ "categories" \notin DOMAIN config
                  THEN [pc |-> "done", args |-> args, results |-> <<>>,
                        result |-> Raise("KeyError")]
                  ELSE [pc |-> "categories", args |-> args, results |-> <<>>,
                        result |-> NoOutcome]]
    /\ UNCHANGED <<engine, config, phase, current, history, industry, outcome>>

\* one pass of the loop of analyze()
EvaluateCategory(t) ==
    /\ engine = "scoring"
    /\ calls[t].pc = "categories"
    /\ Len(calls[t].results) < Len(config.categories)
    /\ LET category == config.categories[Len(calls[t].results) + 1]
           category_result == _evaluate_category(category, calls[t].args.current)
       IN  calls' = IF Raised(category_result) THEN Done(t, category_result)
                    ELSE Collect(t, category_result)
    /\ UNCHANGED <<engine, config, phase, current, history, industry, outcome>>

\* steps 2 to 4 of analyze(), after the loop
EndAnalyze(t) ==
    /\ engine = "scoring"
    /\ calls[t].pc = "categories"
    /\ Len(calls[t].results) = Len(config.categories)
    /\ calls' = Done(t, AnalyzeCategories(config, calls[t].args.current, calls[t].results))
    /\ UNCHANGED <<engine, config, phase, current, history, industry, outcome>>

NextShared ==
    \/ LoadConfig
    \/ \E t \in Threads :
          \/ BeginScreen(t)
          \/ CheckCategory(t)
          \/ EndScreen(t)
          \/ BeginAnalyze(t)
          \/ EvaluateCategory(t)
          \/ EndAnalyze(t)

SpecShared == InitShared /\ [][NextShared]_vars

----------------------------------------------------------------------------
(* Claims about the screening engine, checked under Spec *)

Returned == phase = "returned"
Called == phase \in {"returned", "raised"}

\* the (category, criterion) positions of the loaded config
Positions ==
    IF "t" \in DOMAIN config \/ "categories" \notin DOMAIN config THEN {}
    ELSE {p \in (DOMAIN config.categories) \X (1..8) :
             p[2] \in DOMAIN config.categories[p[1]].criteria}

CriterionAt(p) == config.categories[p[1]].criteria[p[2]]
ResultAt(p) == outcome.category_results[p[1]].criteria_results[p[2]]

RequiredTopLevelKeys == {"name", "description", "categories"}

\* every value of the metrics passed in is a number or None
NumericInputs ==
    /\ \A k \in DOMAIN current : IsNum(current[k]) \/ IsNone(current[k])
    /\ IsNone(history) \/
       \A i \in DOMAIN history.items : \A k \in DOMAIN history.items[i] :
           IsNum(history.items[i][k]) \/ IsNone(history.items[i][k])

\* C1: on a constructed ScreeningEngine whose config has the required keys, screen()
\* returns a ScreeningResult and never raises, whatever numbers (negative and zero
\* included), nulls or absent keys the current metrics and the history hold.
C1_ScreenNeverRaises ==
    (/\ Called
     /\ RequiredTopLevelKeys \subseteq DOMAIN config
     /\ "industry_adjustments" \notin DOMAIN config
     /\ NumericInputs)
    => ~Raised(outcome)

\* the current metrics with key k bound to None
WithNull(metrics, k) == [x \in DOMAIN metrics \cup {k} |-> IF x = k THEN None ELSE metrics[x]]

\* what C2 compares of two outcomes: the verdict and, per criterion, passed,
\* actual_value and reason
VerdictOf(r) ==
    IF Raised(r) THEN r
    ELSE [result_type |-> r.result_type,
          criteria |-> [i \in DOMAIN r.category_results |->
                           [j \in DOMAIN r.category_results[i].criteria_results |->
                               LET c == r.category_results[i].criteria_results[j]
                               IN  <<c.passed, c.actual_value, c.reason>>]]]

\* C2: a metric key absent from the current metrics gives the same verdict, with the
\* same passed, actual_value and reason of every criterion, as the key bound to null.
C2_AbsentSameAsNull ==
    Returned =>
        \A k \in CurrentKeys(config) \ DOMAIN current :
            VerdictOf(outcome)
                = VerdictOf(screen(config, WithNull(current, k), history, industry))

\* C3: a config document lacking one of name, description, categories fails at
\* construction: it never becomes a constructed engine.
C3_MissingKeyFailsConstruction ==
    (phase # "new" /\ ~(RequiredTopLevelKeys \subseteq DOMAIN config))
    => phase = "load_failed"

\* the snapshot at index k (1-based) satisfies the criterion's comparison
Satisfies(c, k) ==
    /\ ~IsNone(Get(history.items[k], c.metric))
    /\ _compare(Get(history.items[k], c.metric), c.operator, c.threshold)

\* the number of snapshots from the most recent one on that satisfy the comparison
\* before the first one that does not, among the first c.years
LeadingRun(c) ==
    CHOOSE n \in 0..c.years :
        /\ \A k \in 1..n : Satisfies(c, k)
        /\ n < c.years => ~Satisfies(c, n + 1)

\* C9: a consecutive_years criterion fails on a history shorter than `years`;
\* otherwise its streak is the run of satisfying snapshots counted from index 0 up
\* to the first failure, and it passes iff that streak equals `years`.
C9_ConsecutiveStreak ==
    Returned =>
        \A p \in Positions :
            CriterionAt(p).check_type = "consecutive_years" =>
                IF IsNone(history) \/ Len(history.items) < CriterionAt(p).years
                THEN ~ResultAt(p).passed /\ ResultAt(p).actual_value = None
                ELSE /\ ResultAt(p).actual_value = Num(LeadingRun(CriterionAt(p)))
                     /\ ResultAt(p).passed
                            <=> (LeadingRun(CriterionAt(p)) = CriterionAt(p).years)

\* the spec's example: history [pass, fail, pass, pass], years = 4, streak 1
C9_Witness ==
    /\ Returned
    /\ \E p \in Positions :
          /\ CriterionAt(p).check_type = "consecutive_years"
          /\ CriterionAt(p).years = 4
          /\ ~IsNone(history) /\ Len(history.items) = 4
          /\ Satisfies(CriterionAt(p), 1) /\ ~Satisfies(CriterionAt(p), 2)
          /\ Satisfies(CriterionAt(p), 3) /\ Satisfies(CriterionAt(p), 4)
          /\ ResultAt(p).actual_value = Num(1)
          /\ ~ResultAt(p).passed

\* C10: a cagr criterion with a configured operator compares the growth rate with
\* the threshold by that operator and reports it in the result's operator field.
C10_CagrUsesConfiguredOperator ==
    Returned =>
        \A p \in Positions :
            (/\ CriterionAt(p).check_type = "cagr"
             /\ "operator" \in DOMAIN CriterionAt(p)
             /\ ~IsNone(ResultAt(p).actual_value))
            => /\ ResultAt(p).operator = CriterionAt(p).operator
               /\ ResultAt(p).passed
                      <=> _compare(ResultAt(p).actual_value, CriterionAt(p).operator,
                                   CriterionAt(p).threshold)

----------------------------------------------------------------------------
(* Claims about categories and the overall verdict, checked under SpecVerdict *)

\* category.get('required', True) of the i-th configured category
RequiredAt(i) ==
    IF "required" \in DOMAIN config.categories[i] THEN config.categories[i].required
    ELSE TRUE

\* the results of the i-th category, and how many of them (of a level) passed
ResultsAt(i) == outcome.category_results[i].criteria_results

PassedAt(i) == Cardinality({j \in DOMAIN ResultsAt(i) : ResultsAt(i)[j].passed})

LevelAt(i, level) == {j \in DOMAIN ResultsAt(i) : ResultsAt(i)[j].importance = level}

LevelPassedAt(i, level) == {j \in LevelAt(i, level) : ResultsAt(i)[j].passed}

\* the tolerance setting under a key, or its documented default
Setting(key, dflt) ==
    IF "tolerance" \in DOMAIN config /\ key \in DOMAIN config.tolerance
    THEN config.tolerance[key] ELSE dflt

\* passed/total of a level is at least the rate n/d
RateAtLeast(i, level, rate) ==
    Cardinality(LevelPassedAt(i, level)) * rate.d >= rate.n * Cardinality(LevelAt(i, level))

\* 10 * (sum of the categories' pass rates) >= 7 * (number of categories), with the
\* rates brought to the common denominator 60 (categories hold 0..6 criteria here)
MeanPassRateAtLeast70Percent ==
    LET rate60(i) == IF Len(ResultsAt(i)) = 0 THEN 0
                     ELSE (60 * PassedAt(i)) \div Len(ResultsAt(i))
        RECURSIVE total(_)
        total(n) == IF n = 0 THEN 0 ELSE total(n - 1) + rate60(n)
    IN  10 * total(Len(outcome.category_results)) >= 7 * 60 * Len(outcome.category_results)

AllRequiredPassed ==
    \A i \in DOMAIN outcome.category_results :
        RequiredAt(i) => outcome.category_results[i].passed

\* C7: result_type is "pass" iff every required category passed; otherwise "partial"
\* iff tolerance.allow_partial_pass is true and the mean of the categories' pass
\* rates is >= 0.70; otherwise "fail"; passed is true exactly when it is "pass".
C7_OverallVerdict ==
    Returned =>
        /\ outcome.passed <=> (outcome.result_type = "pass")
        /\ outcome.result_type =
               IF AllRequiredPassed THEN "pass"
               ELSE IF Setting("allow_partial_pass", FALSE) /\ MeanPassRateAtLeast70Percent
               THEN "partial"
               ELSE "fail"

\* a required category failed with 2 of 5, the other passed: the mean is exactly 0.70
C7_Witness ==
    /\ Returned
    /\ Len(outcome.category_results) = 2
    /\ RequiredAt(1) /\ Len(ResultsAt(1)) = 5 /\ PassedAt(1) = 2
    /\ PassedAt(2) = 1
    /\ Setting("allow_partial_pass", FALSE)
    /\ outcome.result_type = "partial" /\ ~outcome.passed

\* C8: a required category passes iff all its criteria pass; a non-required one
\* passes iff (critical_must_pass is false or every critical criterion passes) and
\* (no high criterion or passed-high/total-high >= high_min_pass_rate, default 0.8)
\* and (no medium criterion or passed-medium/total-medium >= medium_min_pass_rate,
\* default 0.6).
C8_CategoryVerdict ==
    Returned =>
        \A i \in DOMAIN outcome.category_results :
            outcome.category_results[i].passed <=>
                IF RequiredAt(i) THEN PassedAt(i) = Len(ResultsAt(i))
                ELSE /\ \/ ~Setting("critical_must_pass", TRUE)
                        \/ LevelPassedAt(i, "critical") = LevelAt(i, "critical")
                     /\ \/ LevelAt(i, "high") = {}
                        \/ RateAtLeast(i, "high", Setting("high_min_pass_rate", Rat(4, 5)))
                     /\ \/ LevelAt(i, "medium") = {}
                        \/ RateAtLeast(i, "medium",
                                       Setting("medium_min_pass_rate", Rat(3, 5)))

\* critical_must_pass=true, a failed critical criterion beside passing high and
\* medium ones: the non-required category fails
C8_Witness ==
    /\ Returned
    /\ \E i \in DOMAIN outcome.category_results :
          /\ ~RequiredAt(i)
          /\ "tolerance" \in DOMAIN config
          /\ "critical_must_pass" \in DOMAIN config.tolerance
          /\ config.tolerance.critical_must_pass
          /\ Cardinality(LevelAt(i, "critical")) = 1
          /\ LevelPassedAt(i, "critical") = {}
          /\ LevelAt(i, "high") # {} /\ LevelPassedAt(i, "high") = LevelAt(i, "high")
          /\ LevelAt(i, "medium") # {}
          /\ LevelPassedAt(i, "medium") = LevelAt(i, "medium")
          /\ ~outcome.category_results[i].passed

----------------------------------------------------------------------------
(* Claims about the scoring engine, checked under SpecScoring *)

\* a scoring document with the sections analyze() reads
LoadedScoringConfig ==
    {"name", "description", "categories", "recommendations"} \subseteq DOMAIN config

\* the (category, metric) positions of the loaded config
MetricPositions ==
    IF ~LoadedScoringConfig THEN {}
    ELSE {p \in (DOMAIN config.categories) \X (1..8) :
             p[2] \in DOMAIN config.categories[p[1]].metrics}

MetricAt(p) == config.categories[p[1]].metrics[p[2]]
ScoreAt(p) == outcome.category_scores[p[1]].metrics[p[2]]

\* evaluating the rule's condition with `value` bound raises
ConditionRaises(rule, value) ==
    /\ "condition" \in DOMAIN rule
    /\ Raised(Eval(rule.condition, [k \in {"value"} |-> value]))

\* the rule's condition evaluates, to a true value
ConditionHolds(rule, value) ==
    /\ "condition" \in DOMAIN rule
    /\ ~ConditionRaises(rule, value)
    /\ Truthy(Eval(rule.condition, [k \in {"value"} |-> value]))

\* a default rule, or a conditional rule whose condition is true for the value
Stops(rule, value) == "default" \in DOMAIN rule \/ ConditionHolds(rule, value)

\* the positions of the first rule in declared order that stops the walk (none or one)
FirstStop(rules, value) ==
    {i \in DOMAIN rules : Stops(rules[i], value) /\ \A j \in 1..(i - 1) : ~Stops(rules[j], value)}

\* the (score, comment) the first stopping rule gives, or (0, "未匹配到评分规则")
Decided(rules, value) ==
    IF FirstStop(rules, value) = {} THEN <<Num(0), "no_rule_matched">>
    ELSE LET rule == rules[CHOOSE i \in FirstStop(rules, value) : TRUE]
         IN  <<IF "default" \in DOMAIN rule THEN rule.default ELSE rule.score,
               IF "comment" \in DOMAIN rule THEN rule.comment ELSE "">>

\* C4: for a non-null value the metric's score and comment are those of the first
\* rule in declared order that is a default rule or a conditional rule whose
\* condition is true; without such a rule the score is 0 with comment
\* "未匹配到评分规则".
C4_FirstMatchingRuleWins ==
    Returned =>
        \A p \in MetricPositions :
            ~IsNone(ScoreAt(p).value) =>
                <<ScoreAt(p).score, ScoreAt(p).comment>>
                    = Decided(MetricAt(p).rules, ScoreAt(p).value)

\* the spec's example: the rules [value>=0.5 -> 100, value>=0.2 -> 60, default 0]
\* and the value 0.6 give 100
C4_Witness ==
    /\ Returned
    /\ \E p \in MetricPositions :
          /\ MetricAt(p).rules = ExampleRules
          /\ ScoreAt(p).value = Rat(6, 10)
          /\ ScoreAt(p).score = Num(100)
          /\ ScoreAt(p).comment = "excellent"

\* the rules whose condition does not raise for the value, in declared order
WithoutRaising(rules, value) == SelectSeq(rules, LAMBDA r : ~ConditionRaises(r, value))

\* C5: analyze() on a loaded config returns a complete AnalysisResult whatever the
\* conditions do; a rule whose condition raises counts as not matched, so every
\* metric scores as if its raising rules were not in the list.
C5_RaisingConditionNotMatched ==
    (Called /\ LoadedScoringConfig) =>
        /\ ~Raised(outcome)
        /\ DOMAIN outcome.category_scores = DOMAIN config.categories
        /\ \A i \in DOMAIN config.categories :
               DOMAIN outcome.category_scores[i].metrics = DOMAIN config.categories[i].metrics
        /\ \A p \in MetricPositions :
               ~IsNone(ScoreAt(p).value) =>
                   <<ScoreAt(p).score, ScoreAt(p).comment>>
                       = Decided(WithoutRaising(MetricAt(p).rules, ScoreAt(p).value),
                                 ScoreAt(p).value)

\* a metric whose first rule cannot be parsed and whose second rule matched, beside a
\* metric whose comparisons raise on a string value and whose default rule scored
C5_Witness ==
    /\ Returned
    /\ \E p \in MetricPositions, q \in MetricPositions :
          /\ Len(MetricAt(p).rules) >= 2
          /\ "condition" \in DOMAIN MetricAt(p).rules[1]
          /\ MetricAt(p).rules[1].condition = [kind |-> "syntax_error"]
          /\ ~IsNone(ScoreAt(p).value)
          /\ ConditionHolds(MetricAt(p).rules[2], ScoreAt(p).value)
          /\ ScoreAt(p).score = MetricAt(p).rules[2].score
          /\ ScoreAt(q).value = Str("N/A")
          /\ Len(MetricAt(q).rules) >= 1
          /\ ConditionRaises(MetricAt(q).rules[1], ScoreAt(q).value)
          /\ ScoreAt(q).score = Num(0) /\ ScoreAt(q).comment = "poor"

\* every configured metric is absent from the metrics or null
AllMissing == \A p \in MetricPositions : IsNone(Get(current, MetricAt(p).name))

\* C6: with every configured metric absent or null, analyze() on a loaded config
\* yields total_score 0 and every MetricScore has score 0 and comment "数据缺失".
C6_AllMissingScoresZero ==
    (Called /\ LoadedScoringConfig /\ AllMissing) =>
        /\ ~Raised(outcome)
        /\ outcome.total_score = Num(0)
        /\ \A p \in MetricPositions :
               ScoreAt(p).score = Num(0) /\ ScoreAt(p).comment = "data_missing"

\* all missing, one key absent and one null, and a metric with a non-zero default rule
C6_Witness ==
    /\ Returned /\ LoadedScoringConfig /\ AllMissing
    /\ \E p \in MetricPositions, q \in MetricPositions :
          /\ MetricAt(p).name \notin DOMAIN current
          /\ MetricAt(q).name \in DOMAIN current
          /\ \E i \in DOMAIN MetricAt(p).rules :
                /\ "default" \in DOMAIN MetricAt(p).rules[i]
                /\ MetricAt(p).rules[i].default # Num(0)
          /\ ScoreAt(p).score = Num(0)
    /\ outcome.total_score = Num(0)

----------------------------------------------------------------------------
(* Claims about the time-series checks, checked under Spec *)

\* C11: a cagr criterion with years=4 on a history with history[0][metric] = 200 and
\* history[4][metric] = 100 computes (200/100)^(1/4) - 1 whatever the snapshots at
\* indices 1..3 hold: it passes with threshold 0.15 and fails with threshold 0.25.
C11_CagrOverFourYears ==
    Returned =>
        \A p \in Positions :
            (/\ CriterionAt(p).check_type = "cagr"
             /\ CriterionAt(p).years = 4
             /\ ~IsNone(history) /\ Len(history.items) >= 5
             /\ Get(history.items[1], CriterionAt(p).metric) = Num(200)
             /\ Get(history.items[5], CriterionAt(p).metric) = Num(100))
            => /\ ResultAt(p).actual_value = Growth(Num(200), Num(100), 4)
               /\ CriterionAt(p).threshold = Rat(3, 20) => ResultAt(p).passed
               /\ CriterionAt(p).threshold = Rat(1, 4) => ~ResultAt(p).passed

\* the snapshots of the history that hold a valid (non-null, positive) value of the metric
ValidPoints(metric) ==
    IF IsNone(history) THEN {}
    ELSE {k \in DOMAIN history.items :
             /\ IsNum(Get(history.items[k], metric))
             /\ Get(history.items[k], metric).n > 0}

\* the reasons of a check that reached its comparison / that stopped for lack of history
ComparisonReasons == {"percentile", "volatility"}
InsufficientReasons ==
    {"history_too_short", "valid_history_insufficient", "valid_data_insufficient"}

\* C12: a historical_percentile or volatility criterion proceeds to the comparison
\* whenever the history supplies at least 3 valid points of the metric (a history
\* of exactly 3 snapshots included), and fails for insufficient historical data
\* when it supplies only 2.
C12_ThreeValidPointsProceed ==
    Returned =>
        \A p \in Positions :
            (/\ CriterionAt(p).check_type \in {"historical_percentile", "volatility"}
             /\ CriterionAt(p).check_type = "historical_percentile"
                    => ~IsNone(Get(current, CriterionAt(p).metric)))
            => /\ Cardinality(ValidPoints(CriterionAt(p).metric)) >= 3
                      => ResultAt(p).reason.text \in ComparisonReasons
               /\ Cardinality(ValidPoints(CriterionAt(p).metric)) = 2
                      => /\ ~ResultAt(p).passed
                         /\ ResultAt(p).reason.text \in InsufficientReasons

\* the start and end values a valuation_expansion criterion reads (1-based indices)
StartOf(c, metric) == Get(history.items[YearsOf(c)], metric)
EndOf(metric) == Get(history.items[1], metric)

\* a valuation_expansion criterion whose four values are numbers and whose start
\* market cap and start profit are positive
ExpansionComputable(c) ==
    /\ c.check_type = "valuation_expansion"
    /\ ~HistoryTooShort(history, YearsOf(c))
    /\ IsNum(StartOf(c, "market_cap")) /\ StartOf(c, "market_cap").n > 0
    /\ IsNum(StartOf(c, "net_profit")) /\ StartOf(c, "net_profit").n > 0
    /\ IsNum(EndOf("market_cap")) /\ IsNum(EndOf("net_profit"))

\* C13: with positive start market cap and start profit, a profit CAGR <= 0 (end
\* profit not above start profit, zero and negative end profits included) gives the
\* ratio 999 and the criterion fails for "<" and "<=" with a threshold below 999;
\* otherwise the ratio is market_cap_cagr / profit_cagr and passed is the comparison
\* of that ratio with the threshold by the configured operator.
C13_ValuationExpansionRatio ==
    Called =>
        \A p \in Positions :
            ExpansionComputable(CriterionAt(p)) =>
                /\ ~Raised(outcome)
                /\ IF NumLe(EndOf("net_profit"), StartOf(CriterionAt(p), "net_profit"))
                   THEN /\ ResultAt(p).actual_value = Num(999)
                        /\ (/\ CriterionAt(p).operator \in {"<", "<="}
                            /\ NumLt(CriterionAt(p).threshold, Num(999)))
                           => ~ResultAt(p).passed
                   ELSE /\ ResultAt(p).actual_value.t = "quot"
                        /\ ResultAt(p).passed
                               <=> _compare(ResultAt(p).actual_value,
                                            CriterionAt(p).operator,
                                            CriterionAt(p).threshold)

----------------------------------------------------------------------------
(* Claims about the other check types, checked under Spec *)

\* C14: a negative_screen criterion passes iff current[metric] == threshold (an
\* absent metric is null), and a criterion that declares no importance gets
\* "critical" when it is a negative_screen and "medium" otherwise.
C14_NegativeScreen ==
    Returned =>
        \A p \in Positions :
            /\ CriterionAt(p).check_type = "negative_screen"
                   => (ResultAt(p).passed
                           <=> PyEq(Get(current, CriterionAt(p).metric),
                                    CriterionAt(p).threshold))
            /\ "importance" \notin DOMAIN CriterionAt(p)
                   => ResultAt(p).importance
                          = IF CriterionAt(p).check_type = "negative_screen"
                            THEN "critical" ELSE "medium"

----------------------------------------------------------------------------
(* Claims about the AnalysisResult, checked under SpecScoring *)

\* the entries of recommendations[] whose [min, max] contains the total score
Containing ==
    {i \in DOMAIN config.recommendations :
        /\ NumLe(config.recommendations[i].score_range[1], outcome.total_score)
        /\ NumLe(outcome.total_score, config.recommendations[i].score_range[2])}

\* the recommendation fields of the result are those of a recommendations[] entry
Recommends(rec) ==
    /\ outcome.recommendation = rec.action
    /\ outcome.reasoning = rec.reasoning
    /\ outcome.risk_level = rec.risk_level

\* C15: the recommendation is the first entry of recommendations[] whose score_range
\* contains total_score, both ends inclusive; when no range contains it, the default
\* ("观察", manual review, unknown risk) is returned.
C15_FirstContainingRange ==
    Returned =>
        IF Containing = {}
        THEN /\ outcome.recommendation = "observe"
             /\ outcome.reasoning = "score_anomaly_manual_review"
             /\ outcome.risk_level = "unknown"
        ELSE \E i \in Containing :
                /\ \A j \in Containing : i <= j
                /\ Recommends(config.recommendations[i])

\* overlapping ranges [50, 100] and [0, 60] and the score 60, on the inclusive end of
\* the second: the earlier entry wins
C15_Witness ==
    /\ Returned
    /\ Containing = {1, 2}
    /\ outcome.total_score = Num(60)
    /\ config.recommendations[2].score_range[2] = Num(60)
    /\ Recommends(config.recommendations[1])
    /\ ~Recommends(config.recommendations[2])

\* the i-th CategoryScore of the result and the i-th configured category
CategoryScoreAt(i) == outcome.category_scores[i]
CategoryAt(i) == config.categories[i]

\* C16: each category's score is the sum of its metrics' scores and its max_score the
\* configured category weight; total_score is the sum of the category scores and
\* max_score the sum of the category weights; category_scores follows the config's
\* category order with one MetricScore per configured metric, in order.
C16_ScoresAddUp ==
    Returned =>
        /\ DOMAIN outcome.category_scores = DOMAIN config.categories
        /\ \A i \in DOMAIN config.categories :
              /\ CategoryScoreAt(i).name = CategoryAt(i).name
              /\ CategoryScoreAt(i).max_score = CategoryAt(i).weight
              /\ DOMAIN CategoryScoreAt(i).metrics = DOMAIN CategoryAt(i).metrics
              /\ \A j \in DOMAIN CategoryAt(i).metrics :
                     CategoryScoreAt(i).metrics[j].name = CategoryAt(i).metrics[j].name
              /\ CategoryScoreAt(i).score
                     = Sum([j \in DOMAIN CategoryScoreAt(i).metrics |->
                               CategoryScoreAt(i).metrics[j].score])
        /\ outcome.total_score
               = Sum([i \in DOMAIN outcome.category_scores |-> CategoryScoreAt(i).score])
        /\ outcome.max_score
               = Sum([i \in DOMAIN config.categories |-> CategoryAt(i).weight])

\* two categories, the first of two scoring metrics whose weights add up to more than
\* the category weight
C16_Witness ==
    /\ Returned
    /\ Len(outcome.category_scores) = 2
    /\ Len(CategoryScoreAt(1).metrics) = 2
    /\ CategoryScoreAt(1).metrics[1].score = Num(100)
    /\ CategoryScoreAt(1).metrics[2].score = Num(60)
    /\ CategoryScoreAt(1).score = Num(160)
    /\ CategoryScoreAt(1).max_score = Num(100)
    /\ CategoryScoreAt(2).name = "second"
    /\ CategoryScoreAt(2).score = Num(30)
    /\ outcome.total_score = Num(190)
    /\ outcome.max_score = Num(150)

\* total_score / max_score * 100, and 0 when max_score is 0
Percentage(total_score, max_score) ==
    IF max_score = Num(0) THEN Num(0)
    ELSE NumMul(NumDiv(total_score, max_score), Num(100))

\* the grades from worst to best, and the least percentage of each
Grades == <<"F", "D", "C", "B", "A", "A+">>
GradeFloor == <<0, 50, 60, 70, 80, 90>>

\* the position in Grades of the grade of a percentage: the best grade whose floor
\* the percentage reaches (F when it reaches none)
GradeRank(percentage) ==
    CHOOSE k \in DOMAIN Grades :
        /\ k = 1 \/ NumLe(Num(GradeFloor[k]), percentage)
        /\ \A j \in DOMAIN Grades : j > k => ~NumLe(Num(GradeFloor[j]), percentage)

\* the result with another total score
WithTotal(total_score) == [outcome EXCEPT !.total_score = total_score]

\* C17: score_percentage is total_score / max_score * 100, and 0 when max_score is 0;
\* grade is A+ from 90, A from 80, B from 70, C from 60, D from 50 and F below; for
\* a fixed max_score the grade never gets worse as total_score increases.
C17_GradeSteps ==
    Returned =>
        /\ score_percentage(outcome) = Percentage(outcome.total_score, outcome.max_score)
        /\ grade(outcome) = Grades[GradeRank(score_percentage(outcome))]
        /\ \A higher \in GradeScores :
               NumLe(outcome.total_score, higher) =>
                   \E k \in DOMAIN Grades :
                       /\ grade(WithTotal(higher)) = Grades[k]
                       /\ k >= GradeRank(score_percentage(outcome))

\* 90 of 100 points is exactly 90 percent: grade A+
C17_Witness ==
    /\ Returned
    /\ outcome.total_score = Num(90)
    /\ outcome.max_score = Num(100)
    /\ score_percentage(outcome) = Num(90)
    /\ grade(outcome) = "A+"

\* the config declares risk alerts
DeclaresAlerts == "risk_alerts" \in DOMAIN config

\* the condition of an entry evaluates true over the metrics that are not null
Fires(alert_config) ==
    LET result == Eval(alert_config.condition, NonNull(current))
    IN  ~Raised(result) /\ Truthy(result)

\* the condition of an entry fails on the name of an absent or null metric
RefersToMissing(alert_config) ==
    Eval(alert_config.condition, NonNull(current)) = Raise("NameError")

\* "[level] message"
Rendered(alert_config) ==
    Msg("alert", <<Str(alert_config.level), Str(alert_config.message)>>)

\* the config without the i-th risk alert
WithoutAlert(i) ==
    [config EXCEPT !.risk_alerts =
        [k \in 1..(Len(config.risk_alerts) - 1) |->
            IF k < i THEN config.risk_alerts[k] ELSE config.risk_alerts[k + 1]]]

\* C18: risk_alerts of the result is, in config order, the rendering "[level] message"
\* of exactly the entries whose condition evaluates true over the non-null metrics;
\* an entry whose condition fails on an absent or null metric is skipped, and the
\* result is the one the config without that entry gives.
C18_RiskAlertsInOrder ==
    Returned /\ DeclaresAlerts =>
        LET firing == SelectSeq(config.risk_alerts, Fires)
        IN  /\ outcome.risk_alerts = [k \in DOMAIN firing |-> Rendered(firing[k])]
            /\ \A i \in DOMAIN config.risk_alerts :
                   RefersToMissing(config.risk_alerts[i]) =>
                       /\ \A k \in DOMAIN outcome.risk_alerts :
                              outcome.risk_alerts[k] # Rendered(config.risk_alerts[i])
                       /\ _check_risk_alerts(WithoutAlert(i), current).alerts
                              = outcome.risk_alerts

\* the first entry refers to an absent metric and the second cannot be parsed: the
\* third entry alone fires
C18_Witness ==
    /\ Returned
    /\ DeclaresAlerts
    /\ Len(config.risk_alerts) = 4
    /\ "s2" \notin DOMAIN current
    /\ RefersToMissing(config.risk_alerts[1])
    /\ outcome.risk_alerts = <<Rendered(config.risk_alerts[3])>>

----------------------------------------------------------------------------
(* Claims about unknown check types and the industry argument, checked under Spec *)

\* the ten check types _check_criterion dispatches on
SupportedCheckTypes ==
    {"simple", "consecutive_years", "cagr", "latest_quarter", "compare_benchmark",
     "negative_screen", "rating", "historical_percentile", "volatility",
     "valuation_expansion"}

UnsupportedAt(p) == CriterionAt(p).check_type \notin SupportedCheckTypes

\* the check of the criterion at p on the arguments of the call
CheckAt(p) == _check_criterion(CriterionAt(p), current, history)

\* C19: a criterion whose check_type is none of the ten supported ones does not raise:
\* its result has passed = false and the reason "unsupported check type"; every
\* criterion of every category still has its own result, and the unsupported one is
\* among failed_criteria.
C19_UnknownCheckTypeFails ==
    Called =>
        \A p \in Positions :
            UnsupportedAt(p) =>
                /\ ~Raised(CheckAt(p))
                /\ (\A q \in Positions \ {p} : ~Raised(CheckAt(q)))
                       /\ RequiredTopLevelKeys \subseteq DOMAIN config
                       /\ "industry_adjustments" \notin DOMAIN config
                   => Returned
                /\ Returned =>
                       /\ ~ResultAt(p).passed
                       /\ ResultAt(p).reason = Msg("unsupported_check_type", <<>>)
                       /\ Len(outcome.category_results) = Len(config.categories)
                       /\ \A i \in DOMAIN config.categories :
                              Len(outcome.category_results[i].criteria_results)
                                  = Len(config.categories[i].criteria)
                       /\ \A q \in Positions : ResultAt(q) = CheckAt(q)
                       /\ \E k \in DOMAIN outcome.failed_criteria :
                              outcome.failed_criteria[k] = ResultAt(p)

\* the second of three criteria is of an unknown type: the third and the criterion
\* of the second category are checked and pass, and the second alone has failed
C19_Witness ==
    /\ Returned
    /\ Positions = {<<1, 1>>, <<1, 2>>, <<1, 3>>, <<2, 1>>}
    /\ UnsupportedAt(<<1, 2>>)
    /\ ResultAt(<<1, 3>>).passed
    /\ ResultAt(<<2, 1>>).passed
    /\ outcome.failed_criteria = <<ResultAt(<<1, 2>>)>>

\* C20: the industry argument does not influence screening: whatever industry is
\* passed (none, a key of industry_adjustments, an unknown name), screen() gives
\* what it gives without an industry.
C20_IndustryIgnored ==
    Called => outcome = screen(config, current, history, None)

\* the same for the industries whose industry_adjustments entry is missing, empty or
\* carries a 'name'
C20_NamedIndustryIgnored ==
    Called /\ (IsNone(industry) \/ industry.s # "retail")
        => outcome = screen(config, current, history, None)

----------------------------------------------------------------------------
(* Claims about calls that share an engine, checked under SpecShared *)

\* what the call of t gives when it runs alone on the engine
Alone(t) ==
    IF engine = "screening"
    THEN screen(config, calls[t].args.current, calls[t].args.history,
                calls[t].args.industry)
    ELSE analyze(config, calls[t].args.current)

\* the category results the call of t has when it has run alone up to the same pass
AloneUpTo(t, i) ==
    IF engine = "screening"
    THEN _check_category(config, config.categories[i], calls[t].args.current,
                         calls[t].args.history)
    ELSE _evaluate_category(config.categories[i], calls[t].args.current)

\* every call, finished or in progress, has what it has when run alone
EachAsAlone ==
    \A t \in Threads :
        /\ calls[t].pc = "done" => calls[t].result = Alone(t)
        /\ calls[t].pc = "categories" =>
               \A i \in DOMAIN calls[t].results : calls[t].results[i] = AloneUpTo(t, i)
        /\ \A u \in Threads :
               calls[t].pc = "done" /\ calls[u].pc = "done" /\ calls[t].args = calls[u].args
                   => calls[t].result = calls[u].result

\* no step changes the config or the arguments of a call that has begun
InputsKept ==
    /\ config' = config
    /\ \A t \in Threads : calls[t].pc # "idle" => calls'[t].args = calls[t].args

\* C21: analyze() and screen() leave the config of the engine and their arguments
\* unchanged, and under every interleaving of the steps of two calls on one engine
\* each call returns what it returns when run alone; two calls with the same
\* arguments return equal results.
C21_CallsIndependent == []EachAsAlone /\ [][InputsKept]_vars

\* both calls are in progress with different arguments, each after its first category,
\* and the first categories came out differently
C21_Witness ==
    /\ \A t \in Threads : calls[t].pc = "categories" /\ Len(calls[t].results) = 1
    /\ calls[1].args # calls[2].args
    /\ calls[1].results # calls[2].results

----------------------------------------------------------------------------
(* Claims about the ScreeningResult, checked under SpecVerdict *)

\* the positions of the criteria that failed, and their order: by category, then by
\* criterion
FailedPositions == {p \in Positions : ~ResultAt(p).passed}
Before(p, q) == p[1] < q[1] \/ (p[1] = q[1] /\ p[2] < q[2])
RankOfFailed(p) == Cardinality({q \in FailedPositions : Before(q, p)}) + 1

\* C22: failed_criteria is the list of the CriterionResults with passed = false, by
\* category then by criterion; category_results has one entry per category of the
\* config and one CriterionResult per criterion; total_pass_rate is
\* (criteria - failed) / criteria, and 0 when there are no criteria.
C22_ResultShape ==
    Returned =>
        /\ Len(outcome.category_results) = Len(config.categories)
        /\ \A i \in DOMAIN config.categories :
               /\ Len(outcome.category_results[i].criteria_results)
                      = Len(config.categories[i].criteria)
               /\ outcome.category_results[i].name = config.categories[i].name
        /\ \A p \in Positions : ResultAt(p).name = CriterionAt(p).name
        /\ Len(outcome.failed_criteria) = Cardinality(FailedPositions)
        /\ \A p \in FailedPositions : outcome.failed_criteria[RankOfFailed(p)] = ResultAt(p)
        /\ total_pass_rate(outcome) =
               IF Positions = {} THEN Num(0)
               ELSE Rat(Cardinality(Positions) - Len(outcome.failed_criteria),
                        Cardinality(Positions))

\* two categories of five criteria and of one: two criteria of the first failed and
\* the one of the second, so three of six passed
C22_Witness ==
    /\ Returned
    /\ Len(config.categories) = 2
    /\ Cardinality(Positions) = 6
    /\ FailedPositions = {<<1, 2>>, <<1, 4>>, <<2, 1>>}
    /\ outcome.failed_criteria = <<ResultAt(<<1, 2>>), ResultAt(<<1, 4>>), ResultAt(<<2, 1>>)>>
    /\ total_pass_rate(outcome) = Rat(1, 2)

----------------------------------------------------------------------------
(* Claims about the rating check and the comparison primitive, checked under Spec *)

\* the rating scale of a criterion, empty when it has none
ScaleOf(c) == IF "rating_scale" \in DOMAIN c THEN c.rating_scale ELSE <<>>

\* x occurs in the scale; its first position
InScale(c, x) == \E i \in DOMAIN ScaleOf(c) : ScaleOf(c)[i] = x
ScaleIndex(c, x) ==
    CHOOSE i \in DOMAIN ScaleOf(c) :
        ScaleOf(c)[i] = x /\ \A j \in DOMAIN ScaleOf(c) : ScaleOf(c)[j] = x => i <= j

\* the rating passed in: None when the key is absent
RatingOf(c) == IF c.metric \in DOMAIN current THEN current[c.metric] ELSE None

\* C23: a rating criterion passes iff the current value and the threshold both occur
\* in its rating_scale and index(value) >= index(threshold); it fails for a null or
\* absent value, for a value or threshold outside the scale, and for an empty scale.
C23_RatingByScale ==
    Returned =>
        \A p \in Positions :
            CriterionAt(p).check_type = "rating" =>
                LET c == CriterionAt(p)
                IN  ResultAt(p).passed <=>
                        /\ InScale(c, RatingOf(c))
                        /\ InScale(c, c.threshold)
                        /\ ScaleIndex(c, RatingOf(c)) >= ScaleIndex(c, c.threshold)

\* AAA against the threshold AA on the scale B, A, AA, AAA passes
C23_Witness ==
    /\ Returned
    /\ Positions = {<<1, 1>>}
    /\ CriterionAt(<<1, 1>>).check_type = "rating"
    /\ Len(ScaleOf(CriterionAt(<<1, 1>>))) = 4
    /\ CriterionAt(<<1, 1>>).threshold = Str("AA")
    /\ RatingOf(CriterionAt(<<1, 1>>)) = Str("AAA")
    /\ ResultAt(<<1, 1>>).passed

----------------------------------------------------------------------------
(* Claims about the evaluation of condition strings, checked under SpecScoring *)

\* the condition goes beyond comparing bound variables: it calls a function or reads
\* an attribute of a value
Escapes(condition) == condition.kind \in {"call", "attr"}

\* C24: a condition that reaches for a builtin, an attribute of an object or a function
\* evaluates to false: no rule with such a condition is matched and no risk alert with
\* such a condition is raised.
C24_NoHostCapability ==
    Returned =>
        /\ \A p \in MetricPositions :
               \A i \in DOMAIN MetricAt(p).rules :
                   LET rule == MetricAt(p).rules[i]
                       value == Get(current, MetricAt(p).name)
                   IN  /\ "condition" \in DOMAIN rule
                       /\ Escapes(rule.condition)
                       /\ ~IsNone(value)
                       => /\ ~_evaluate_condition(rule.condition, value)
                          /\ i = 1 => ScoreAt(p).score # rule.score
        /\ DeclaresAlerts =>
               \A k \in DOMAIN config.risk_alerts :
                   Escapes(config.risk_alerts[k].condition) =>
                       \A j \in DOMAIN outcome.risk_alerts :
                           outcome.risk_alerts[j] # Rendered(config.risk_alerts[k])

\* the same for the conditions that call a builtin: the empty __builtins__ makes the
\* name a NameError
C24_BuiltinsUnreachable ==
    Returned =>
        \A p \in MetricPositions :
            \A i \in DOMAIN MetricAt(p).rules :
                LET rule == MetricAt(p).rules[i]
                IN  "condition" \in DOMAIN rule /\ rule.condition.kind = "call" =>
                        ~_evaluate_condition(rule.condition, Get(current, MetricAt(p).name))

\* the truth value of `value <operator> threshold` for a number threshold: the six
\* operators on two numbers; a string equals no number and is ordered against none
Holds(value, operator, threshold) ==
    IF IsNum(value)
    THEN CASE operator = ">" -> NumLt(threshold, value)
           [] operator = ">=" -> NumLe(threshold, value)
           [] operator = "<" -> NumLt(value, threshold)
           [] operator = "<=" -> NumLe(value, threshold)
           [] operator = "==" -> NumLe(value, threshold) /\ NumLe(threshold, value)
           [] operator = "!=" -> NumLt(value, threshold) \/ NumLt(threshold, value)
           [] OTHER -> FALSE
    ELSE operator = "!="

----------------------------------------------------------------------------
(* Claims about non-required categories and importances, checked under SpecVerdict *)

\* the results of the required categories alone
RequiredResults == SelectSeq(outcome.category_results, LAMBDA c : c.required)

\* C26 as stated: non-required categories never influence the overall verdict, which
\* is the verdict of the required categories alone.
C26_NonRequiredNeverInfluence ==
    Returned /\ RequiredResults # <<>> =>
        <<outcome.passed, outcome.result_type>> = _determine_result(config, RequiredResults)

\* C26, amended: when every required category passed the result is "pass" with
\* passed = true, whatever the non-required categories did, and a config without a
\* required category gives "pass" for every input.
C26_PassWhenRequiredPass ==
    Returned =>
        /\ AllRequiredPassed => outcome.result_type = "pass" /\ outcome.passed
        /\ (\A i \in DOMAIN config.categories : ~RequiredAt(i))
               => outcome.result_type = "pass" /\ outcome.passed

\* the required category passed and the non-required one failed on its critical
\* criterion: the result is "pass"
C26_Witness ==
    /\ Returned
    /\ Len(config.categories) = 2
    /\ RequiredAt(1) /\ outcome.category_results[1].passed /\ Len(ResultsAt(1)) = 5
    /\ ~RequiredAt(2) /\ ~outcome.category_results[2].passed
    /\ LevelAt(2, "critical") # {} /\ LevelPassedAt(2, "critical") = {}
    /\ outcome.result_type = "pass" /\ outcome.passed

\* the positions of the criteria of non-required categories whose result has an
\* importance outside the three groups of the tolerance policy
Ungrouped ==
    {p \in Positions :
        ~RequiredAt(p[1]) /\ ResultAt(p).importance \notin {"critical", "high", "medium"}}

\* the same call with the 0/1 metric of the criterion at p the other way round, so
\* that the criterion passes instead of failing or fails instead of passing
Flipped(p) ==
    screen(config,
           [current EXCEPT ![CriterionAt(p).metric] = IF @ = Num(1) THEN Num(0) ELSE Num(1)],
           history, industry)

\* C27: in a non-required category a criterion whose importance is none of critical,
\* high, medium is in no group of the tolerance policy: the category's verdict is the
\* same whether it passes or fails, while pass_rate, failed_criteria and
\* total_pass_rate count it.
C27_UngroupedImportance ==
    Returned =>
        \A p \in Ungrouped :
            LET other == Flipped(p)
                gain == IF ResultAt(p).passed THEN -1 ELSE 1
            IN  /\ other.category_results[p[1]].criteria_results[p[2]].passed
                       # ResultAt(p).passed
                /\ other.category_results[p[1]].passed = outcome.category_results[p[1]].passed
                /\ pass_rate(other.category_results[p[1]])
                       = Rat(PassedAt(p[1]) + gain, Len(ResultsAt(p[1])))
                /\ pass_rate(outcome.category_results[p[1]])
                       = Rat(PassedAt(p[1]), Len(ResultsAt(p[1])))
                /\ Len(other.failed_criteria) = Len(outcome.failed_criteria) - gain
                /\ ~ResultAt(p).passed =>
                       \E k \in DOMAIN outcome.failed_criteria :
                           outcome.failed_criteria[k] = ResultAt(p)
                /\ total_pass_rate(other) # total_pass_rate(outcome)

\* a non-required category of a passed medium criterion and two failed criteria of
\* importance "low": the category passed with a pass rate of 1/3
C27_Witness ==
    /\ Returned
    /\ Positions = {<<1, 1>>, <<1, 2>>, <<1, 3>>}
    /\ Ungrouped = {<<1, 2>>, <<1, 3>>}
    /\ ResultAt(<<1, 1>>).importance = "medium" /\ ResultAt(<<1, 1>>).passed
    /\ ~ResultAt(<<1, 2>>).passed /\ ~ResultAt(<<1, 3>>).passed
    /\ outcome.category_results[1].passed
    /\ pass_rate(outcome.category_results[1]) = Rat(1, 3)
    /\ Len(outcome.failed_criteria) = 2

----------------------------------------------------------------------------
(* Claims about the fields of time-series results, checked under Spec *)

\* the history holds the `years` snapshots the criterion looks at
EnoughHistory(c) == ~IsNone(history) /\ Len(history.items) >= c.years

\* the value of the criterion's metric is null or absent in snapshot k
MissingAt(c, k) == IsNone(Get(history.items[k], c.metric))

\* a number the criterion's comparison fails for
FailingValue(c) == CHOOSE v \in {Num(0), Num(400)} : ~_compare(v, c.operator, c.threshold)

\* the history with every missing value of the metric replaced by a failing number
MissingAsFailing(c) ==
    [history EXCEPT !.items =
        [k \in DOMAIN history.items |->
            IF MissingAt(c, k)
            THEN [x \in DOMAIN history.items[k] \cup {c.metric} |->
                     IF x = c.metric THEN FailingValue(c) ELSE history.items[k][x]]
            ELSE history.items[k]]]

\* C28 as stated: the actual_value of a consecutive_years result is always a streak
\* between 0 and `years`, and its threshold and operator are always `years` and ">=".
C28_StreakFieldsAlways ==
    Returned =>
        \A p \in Positions :
            CriterionAt(p).check_type = "consecutive_years" =>
                /\ \E n \in 0..CriterionAt(p).years : ResultAt(p).actual_value = Num(n)
                /\ ResultAt(p).threshold = Num(CriterionAt(p).years)
                /\ ResultAt(p).operator = ">="

\* C28, amended: on a history of at least `years` snapshots a null or absent value
\* ends the streak like a failed comparison, so a missing value in the `years` most
\* recent snapshots fails the criterion; actual_value is the streak, between 0 and
\* `years`, and threshold and operator are `years` and ">=". On a shorter history
\* actual_value is null and threshold and operator are the configured ones.
C28_StreakFields ==
    Returned =>
        \A p \in Positions :
            CriterionAt(p).check_type = "consecutive_years" =>
                LET c == CriterionAt(p)
                IN  IF EnoughHistory(c)
                    THEN /\ \E n \in 0..c.years : ResultAt(p).actual_value = Num(n)
                         /\ ResultAt(p).threshold = Num(c.years)
                         /\ ResultAt(p).operator = ">="
                         /\ (\E k \in 1..c.years : MissingAt(c, k)) => ~ResultAt(p).passed
                         /\ \A k \in 1..c.years :
                                MissingAt(c, k) /\ (\A j \in 1..(k - 1) : Satisfies(c, j))
                                    => ResultAt(p).actual_value = Num(k - 1)
                         /\ LET other == _check_consecutive_years(c, current,
                                                                  MissingAsFailing(c))
                            IN  /\ other.passed = ResultAt(p).passed
                                /\ other.actual_value = ResultAt(p).actual_value
                    ELSE /\ ~ResultAt(p).passed
                         /\ ResultAt(p).actual_value = None
                         /\ ResultAt(p).threshold = c.threshold
                         /\ ResultAt(p).operator = c.operator

\* "<" 100 over two years: the most recent snapshot satisfies it and the one before
\* has no value, so the streak is 1 of 2 and the result carries 2 and ">="
C28_Witness ==
    /\ Returned
    /\ Positions = {<<1, 1>>}
    /\ CriterionAt(<<1, 1>>).check_type = "consecutive_years"
    /\ CriterionAt(<<1, 1>>).operator = "<"
    /\ EnoughHistory(CriterionAt(<<1, 1>>))
    /\ Satisfies(CriterionAt(<<1, 1>>), 1)
    /\ MissingAt(CriterionAt(<<1, 1>>), 2)
    /\ ResultAt(<<1, 1>>).actual_value = Num(1)
    /\ ResultAt(<<1, 1>>).threshold = Num(2)
    /\ ResultAt(<<1, 1>>).operator = ">="
    /\ ~ResultAt(<<1, 1>>).passed

\* the values a volatility check collects from the snapshots it looks at
Collected(c) == VolatilityValues(Recent(history, YearsOf(c)), c.metric)

\* the check reached its computation: the result carries the volatility reason
Computed(p) == ResultAt(p).reason.text = "volatility"

\* C29: a volatility check collects only values greater than 0, so whenever it reaches
\* its computation the mean is greater than 0: the volatility is never the zero-mean
\* sentinel 999, and the standard deviation in the reason is defined (the check never
\* fails on an unbound std_dev).
C29_MeanPositive ==
    Called =>
        \A p \in Positions :
            CriterionAt(p).check_type = "volatility" =>
                /\ outcome # Raise("UnboundLocalError")
                /\ Returned /\ Computed(p) =>
                       /\ Len(Collected(CriterionAt(p))) >= MinValidPoints
                       /\ \A k \in DOMAIN Collected(CriterionAt(p)) :
                              NumLt(Num(0), Collected(CriterionAt(p))[k])
                       /\ NumLt(Num(0), Mean(Collected(CriterionAt(p))))
                       /\ ResultAt(p).actual_value # Num(Sentinel)
                       /\ ResultAt(p).actual_value.t = "sqrt"
                       /\ ResultAt(p).reason.args[4].t = "sqrt"

\* four snapshots 100, 0, 400, 100 over four years: the 0 is left out, the mean of
\* the other three is 200 and the volatility is computed
C29_Witness ==
    /\ Returned
    /\ Positions = {<<1, 1>>}
    /\ CriterionAt(<<1, 1>>).check_type = "volatility"
    /\ CriterionAt(<<1, 1>>).metric = "x"
    /\ ~IsNone(history) /\ Len(history.items) = 4
    /\ \A k \in 1..4 : "x" \in DOMAIN history.items[k]
    /\ <<history.items[1].x, history.items[2].x, history.items[3].x, history.items[4].x>>
           = <<Num(100), Num(0), Num(400), Num(100)>>
    /\ Computed(<<1, 1>>)
    /\ Mean(Collected(CriterionAt(<<1, 1>>))) = Num(200)

----------------------------------------------------------------------------
(* Claims about the bounds of scores, checked under SpecScoring *)

\* a number between 0 and a weight
Within(x, weight) == NumLe(Num(0), x) /\ NumLe(x, weight)

\* every rule score and default score of the config lies between 0 and the weight of
\* its metric, and the metric weights of each category add up to the category weight
\* at most
WithinWeights ==
    /\ LoadedScoringConfig
    /\ \A i \in DOMAIN config.categories :
           LET metrics == config.categories[i].metrics
           IN  /\ \A j \in DOMAIN metrics : \A k \in DOMAIN metrics[j].rules :
                      LET rule == metrics[j].rules[k]
                      IN  /\ "score" \in DOMAIN rule => Within(rule.score, metrics[j].weight)
                          /\ "default" \in DOMAIN rule
                                 => Within(rule.default, metrics[j].weight)
               /\ NumLe(Sum([j \in DOMAIN metrics |-> metrics[j].weight]),
                        config.categories[i].weight)

\* C30: in a config whose rule and default scores lie between 0 and the weight of
\* their metric and whose metric weights add up to at most the category weight,
\* every category score lies between 0 and the category's max_score and total_score
\* between 0 and max_score, so score_percentage is within 0..100.
C30_ScoresWithinMax ==
    Returned /\ WithinWeights =>
        /\ \A i \in DOMAIN outcome.category_scores :
               Within(outcome.category_scores[i].score, outcome.category_scores[i].max_score)
        /\ Within(outcome.total_score, outcome.max_score)
        /\ Within(score_percentage(outcome), Num(100))

\* three metrics in two categories, each with its highest score: 150 of 150
C30_Witness ==
    /\ Returned
    /\ WithinWeights
    /\ Len(outcome.category_scores) = 2
    /\ Len(outcome.category_scores[1].metrics) = 2
    /\ outcome.category_scores[1].score = Num(100)
    /\ outcome.total_score = Num(150)
    /\ outcome.max_score = Num(150)
    /\ score_percentage(outcome) = Num(100)

\* the engine does not clamp: in a config whose metric weights add up to more than
\* the category weight the total score exceeds max_score
C30_Unclamped ==
    /\ Returned
    /\ ~WithinWeights
    /\ NumLt(outcome.max_score, outcome.total_score)
    /\ NumLt(Num(100), score_percentage(outcome))

====
